---------------------------- MODULE Spec2Model ----------------------------
(***************************************************************************)
(* Dialectic: the learning store (agents/learning_engine.py), the context  *)
(* analyzer (agents/context_analyzer.py), the deterministic agent          *)
(* generator (agents/agent_generator.py) and the adaptive agent generator  *)
(* (agents/dynamic_agent_generator.py) with its collaborator               *)
(* (config/llm_config.py).                                                 *)
(*                                                                         *)
(* Conventions                                                             *)
(*  - Text (paths, messages, keywords) is a sequence of one-character      *)
(*    strings, so that `in`, endswith and lower() are computed, not        *)
(*    assumed.                                                             *)
(*  - A pattern key is the sequence of its '|'-separated components, each  *)
(*    a string such as "sec:True"; no component contains '|', so           *)
(*    split('|') of the f-string of line 212 is exactly this sequence.     *)
(*  - The scores and running means of the store are exact rationals        *)
(*    <<numerator, denominator>>.  On the inputs used here (up to three    *)
(*    learn_from_event calls) the floats of the code order and tie         *)
(*    exactly as these rationals do.                                       *)
(*  - The confidences of the analyzer and the generators are floats kept  *)
(*    as integers that order as the floats do (see Tenth); the             *)
(*    confidences passed to the store are counted in tenths.               *)
(*  - An exception is the name of its class.                               *)
(*  - One specification per part: SpecLearn and SpecLog (a store on an     *)
(*    empty directory), SpecReload (second stores on its files),           *)
(*    SpecPersist (files of any content, the save step by step, crashes,   *)
(*    a second reader), SpecGen and SpecGenFair (the generators),          *)
(*    SpecProbe (one event through the pure functions).                    *)
(***************************************************************************)
EXTENDS Integers, Sequences, FiniteSets, TLC

VARIABLES
    \* ---- LearningEngine instance (the writer)
    pc,                  \* position of the store process: down (no object), idle, or in _save_all_data about to open / dump file i
    patterns,            \* self.patterns            : pattern key -> count
    success_metrics,     \* self.success_metrics     : record of four counters
    agent_effectiveness, \* self.agent_effectiveness : agent_type -> record
    learning_log,        \* self.learning_log        : sequence of learning events
    shape,               \* per structure: "ok" when the Python object has the expected type, "none" when json.load gave None
    disk,                \* the four files under storage_path
    clock,               \* datetime.now(): number of learn_from_event calls started so far
    call,                \* the last call made on the store: operation, arguments, outcome
    committed,           \* per file, the content before the save in progress (prior) and the content it writes (next)
    reader,              \* per file, what a second LearningEngine() saw when it loaded the file
    \* ---- AIAgentGenerator.generate_agents
    gen,                 \* record: position, context, response of self.llm.generate, result
    \* ---- one event taken through _extract_pattern_key, analyze_event and the rules
    probe,               \* record: the event, the steps done on it, their values
    \* ---- one event loop running two learn_from_event coroutines on the store
    loop,                \* record: each task's position and arguments, the store when they were started, the order they ended in
    \* ---- one MessageHandler with the WorkflowManager and StackAIClient built on it
    flow                 \* record: message_queue, is_processing, the suspended handler, active_workflows, workflows, the clock, histories

vars == <<pc, patterns, success_metrics, agent_effectiveness, learning_log,
          shape, disk, clock, call, committed, reader, gen, probe, loop, flow>>

storeVars == <<pc, patterns, success_metrics, agent_effectiveness, learning_log,
               shape, disk, clock, call, committed, reader>>

(***************************************************************************)
(* Text                                                                    *)
(***************************************************************************)
\* str.lower() of one character
LowerChar(c) ==
    LET Upper == <<"A","B","C","D","E","F","G","H","I","J","K","L","M",
                   "N","O","P","Q","R","S","T","U","V","W","X","Y","Z">>
        LowerOf == <<"a","b","c","d","e","f","g","h","i","j","k","l","m",
                     "n","o","p","q","r","s","t","u","v","w","x","y","z">>
    IN  CHOOSE lowered \in {IF \E i \in 1..26 : Upper[i] = ch
                             THEN LowerOf[CHOOSE i \in 1..26 : Upper[i] = ch]
                             ELSE ch : ch \in {c}} : TRUE

\* str.lower()
RECURSIVE Lower(_)
Lower(s) ==
    CHOOSE lowered \in {IF t = << >> THEN << >> ELSE <<LowerChar(Head(t))>> \o Lower(Tail(t)) : t \in {s}} : TRUE

\* kw in text
Contains(text, kw) ==
    \E t \in {text} :
        \E i \in 0..(Len(t) - Len(kw)) :
            \A j \in 1..Len(kw) : t[i + j] = kw[j]

\* s.endswith(suf)
EndsWith(s, suf) ==
    /\ Len(suf) <= Len(s)
    /\ \A j \in 1..Len(suf) : s[Len(s) - Len(suf) + j] = suf[j]

\* s.endswith((suf1, suf2, ...))
EndsWithAny(s, sufs) == \E suf \in sufs : EndsWith(s, suf)

\* sep.join(parts)
RECURSIVE Join(_, _)
Join(parts, sep) ==
    IF parts = <<>> THEN <<>>
    ELSE IF Len(parts) = 1 THEN parts[1]
    ELSE parts[1] \o sep \o Join(Tail(parts), sep)

\* str(files) of a list of str: "['a', 'b']"
StrOfList(files) ==
    <<"[">> \o Join([i \in 1..Len(files) |-> <<"'">> \o files[i] \o <<"'">>], <<",", " ">>) \o <<"]">>

(***************************************************************************)
(* The events used as inputs: the scenarios of the repository's own test   *)
(* drivers (agent_generator.py 333-365) and a few more.  An event has      *)
(* files (a list of paths), message and errors (a list of error records).  *)
(***************************************************************************)
EventData ==
    [ \* 'src/auth/jwt.py', 'src/middleware/auth.py';
      \* 'Add JWT authentication with secure token handling'
      security |->
        [files |-> <<<<"s","r","c","/","a","u","t","h","/","j","w","t",".","p","y">>,
                     <<"s","r","c","/","m","i","d","d","l","e","w","a","r","e","/","a","u","t","h",".","p","y">>>>,
         message |-> <<"A","d","d"," ","J","W","T"," ","a","u","t","h","e","n","t","i","c","a","t","i","o","n"," ","w","i","t","h"," ","s","e","c","u","r","e"," ","t","o","k","e","n"," ","h","a","n","d","l","i","n","g">>,
         errors |-> <<>>],
      \* 'src/prototype/feature.py'; 'Quick MVP prototype for hackathon demo'
      mvp |->
        [files |-> <<<<"s","r","c","/","p","r","o","t","o","t","y","p","e","/","f","e","a","t","u","r","e",".","p","y">>>>,
         message |-> <<"Q","u","i","c","k"," ","M","V","P"," ","p","r","o","t","o","t","y","p","e"," ","f","o","r"," ","h","a","c","k","a","t","h","o","n"," ","d","e","m","o">>,
         errors |-> <<>>],
      \* 'src/api/handler.py'; 'Fix TypeError in user handler'; one error record
      error |->
        [files |-> <<<<"s","r","c","/","a","p","i","/","h","a","n","d","l","e","r",".","p","y">>>>,
         message |-> <<"F","i","x"," ","T","y","p","e","E","r","r","o","r"," ","i","n"," ","u","s","e","r"," ","h","a","n","d","l","e","r">>,
         errors |-> <<[type |-> "TypeError", count |-> 5]>>],
      \* the same without the error record
      plain |->
        [files |-> <<<<"s","r","c","/","a","p","i","/","h","a","n","d","l","e","r",".","p","y">>>>,
         message |-> <<"F","i","x"," ","T","y","p","e","E","r","r","o","r"," ","i","n"," ","u","s","e","r"," ","h","a","n","d","l","e","r">>,
         errors |-> <<>>],
      \* 'src/api/optimize.py', 'src/cache/redis.py';
      \* 'Optimize API response time with caching'
      perf |->
        [files |-> <<<<"s","r","c","/","a","p","i","/","o","p","t","i","m","i","z","e",".","p","y">>,
                     <<"s","r","c","/","c","a","c","h","e","/","r","e","d","i","s",".","p","y">>>>,
         message |-> <<"O","p","t","i","m","i","z","e"," ","A","P","I"," ","r","e","s","p","o","n","s","e"," ","t","i","m","e"," ","w","i","t","h"," ","c","a","c","h","i","n","g">>,
         errors |-> <<>>],
      \* 'README.md', 'web/App.tsx', 'web/site.css', 'web/App.tsx'; 'Update the guide'
      docs |->
        [files |-> <<<<"R","E","A","D","M","E",".","m","d">>, <<"w","e","b","/","A","p","p",".","t","s","x">>,
                     <<"w","e","b","/","s","i","t","e",".","c","s","s">>, <<"w","e","b","/","A","p","p",".","t","s","x">>>>,
         message |-> <<"U","p","d","a","t","e"," ","t","h","e"," ","g","u","i","d","e">>,
         errors |-> <<>>],
      \* 'src/views.py'; 'Fix login redirect'
      weak |->
        [files |-> <<<<"s","r","c","/","v","i","e","w","s",".","p","y">>>>,
         message |-> <<"F","i","x"," ","l","o","g","i","n"," ","r","e","d","i","r","e","c","t">>,
         errors |-> <<>>],
      \* 'src/cache/optimize.js', 'src/api/pool.py';
      \* 'Quick MVP prototype demo: optimize cache'
      tie |->
        [files |-> <<<<"s","r","c","/","c","a","c","h","e","/","o","p","t","i","m","i","z","e",".","j","s">>,
                     <<"s","r","c","/","a","p","i","/","p","o","o","l",".","p","y">>>>,
         message |-> <<"Q","u","i","c","k"," ","M","V","P"," ","p","r","o","t","o","t","y","p","e"," ","d","e","m","o",":"," ","o","p","t","i","m","i","z","e"," ","c","a","c","h","e">>,
         errors |-> <<>>],
      \* 'api/a.py', 'api/b.py', 'api/c.py'; 'quick fix'
      corner |->
        [files |-> <<<<"a","p","i","/","a",".","p","y">>, <<"a","p","i","/","b",".","p","y">>,
                     <<"a","p","i","/","c",".","p","y">>>>,
         message |-> <<"q","u","i","c","k"," ","f","i","x">>,
         errors |-> <<>>],
      \* no file, empty message
      empty |-> [files |-> <<>>, message |-> <<>>, errors |-> <<>>] ]

EventNames == DOMAIN EventData

(***************************************************************************)
(* LearningEngine._extract_pattern_key                                     *)
(***************************************************************************)
\* lines 192, 194, 196: the keyword lists
key_words ==
    [ security |-> {<<"a","u","t","h">>, <<"s","e","c","u","r","i","t","y">>, <<"t","o","k","e","n">>, <<"j","w","t">>},
      mvp |-> {<<"m","v","p">>, <<"p","r","o","t","o","t","y","p","e">>, <<"h","a","c","k","a","t","h","o","n">>, <<"q","u","i","c","k">>},
      performance |-> {<<"o","p","t","i","m","i","z","e">>, <<"p","e","r","f","o","r","m","a","n","c","e">>, <<"c","a","c","h","e">>, <<"a","s","y","n","c">>} ]

\* the suffixes lines 198-208 name
Ext ==
    [ py |-> <<".","p","y">>, js |-> <<".","j","s">>, ts |-> <<".","t","s">>,
      jsx |-> <<".","j","s","x">>, tsx |-> <<".","t","s","x">>,
      html |-> <<".","h","t","m","l">>, css |-> <<".","c","s","s">>,
      md |-> <<".","m","d">>, rst |-> <<".","r","s","t">>, txt |-> <<".","t","x","t">> ]

\* f"{flag}" of a bool
BoolStr(b) == IF b THEN "True" ELSE "False"

\* lines 201-208: the short code of one path, "" when none is appended
FileTypeCode(file_path) ==
    IF EndsWith(file_path, Ext.py) THEN "py"
    ELSE IF EndsWithAny(file_path, {Ext.js, Ext.ts, Ext.jsx, Ext.tsx}) THEN "js"
    ELSE IF EndsWithAny(file_path, {Ext.html, Ext.css}) THEN "web"
    ELSE ""

\* the order of sorted() on the three codes: 'js' < 'py' < 'web'
CodeRank(c) == CASE c = "js" -> 1 [] c = "py" -> 2 [] c = "web" -> 3

\* sorted(set(file_types)) for a list of codes
RECURSIVE SortedCodes(_)
SortedCodes(codes) ==
    IF codes = {} THEN <<>>
    ELSE LET least == CHOOSE c \in codes : \A d \in codes : CodeRank(c) <= CodeRank(d)
         IN  <<least>> \o SortedCodes(codes \ {least})

\* mutant of SortedSet: the codes as appended, neither deduplicated nor sorted
SortedSet_as_appended(file_types) == file_types

\* line 210: sorted(set(file_types))
SortedSet(file_types) == SortedCodes({file_types[i] : i \in 1..Len(file_types)})

\* '_'.join(list of str)
RECURSIVE JoinCodes(_)
JoinCodes(cs) ==
    IF cs = <<>> THEN ""
    ELSE IF Len(cs) = 1 THEN cs[1]
    ELSE cs[1] \o "_" \o JoinCodes(Tail(cs))

_extract_pattern_key(event_data) ==
    LET files == event_data.files
        message == event_data.message
        errors == Len(event_data.errors)
        text == Lower(StrOfList(files)) \o Lower(message)
        has_security == \E kw \in key_words.security : Contains(text, kw)
        has_mvp == \E kw \in key_words.mvp : Contains(Lower(message), kw)
        has_performance == \E kw \in key_words.performance : Contains(text, kw)
        has_errors == errors > 0
        has_docs == \E i \in 1..Len(files) : EndsWithAny(files[i], {Ext.md, Ext.rst, Ext.txt})
        file_types == SelectSeq([i \in 1..Len(files) |-> FileTypeCode(files[i])], LAMBDA c : c # "")
        file_type_key == IF file_types # <<>> THEN JoinCodes(SortedSet(file_types)) ELSE "other"
    IN  << "sec:" \o BoolStr(has_security),
           "mvp:" \o BoolStr(has_mvp),
           "perf:" \o BoolStr(has_performance),
           "err:" \o BoolStr(has_errors),
           "doc:" \o BoolStr(has_docs),
           "type:" \o file_type_key >>

\* the key of each named event, computed once
KeyOf ==
    [ security |-> _extract_pattern_key(EventData.security),
      mvp      |-> _extract_pattern_key(EventData.mvp),
      error    |-> _extract_pattern_key(EventData.error),
      plain    |-> _extract_pattern_key(EventData.plain),
      perf     |-> _extract_pattern_key(EventData.perf),
      docs     |-> _extract_pattern_key(EventData.docs),
      weak     |-> _extract_pattern_key(EventData.weak),
      tie      |-> _extract_pattern_key(EventData.tie),
      corner   |-> _extract_pattern_key(EventData.corner),
      empty    |-> _extract_pattern_key(EventData.empty) ]


(***************************************************************************)
(* Exact rationals <<numerator, denominator>>, denominator > 0, reduced.   *)
(***************************************************************************)
RECURSIVE Gcd(_, _)
Gcd(a, b) == IF b = 0 THEN a ELSE Gcd(b, a % b)

Rat(n, d) == LET g == Gcd(n, d) IN IF n = 0 THEN <<0, 1>> ELSE <<n \div g, d \div g>>
RatAdd(a, b) == Rat(a[1] * b[2] + b[1] * a[2], a[2] * b[2])
RatMul(a, b) == Rat(a[1] * b[1], a[2] * b[2])
RatLess(a, b) == a[1] * b[2] < b[1] * a[2]
Zero == <<0, 1>>

(***************************************************************************)
(* The in-memory structures of a LearningEngine and their files            *)
(***************************************************************************)
FileOrder == <<"patterns", "success_metrics", "agent_effectiveness", "learning_log">>
Files == {FileOrder[i] : i \in 1..Len(FileOrder)}

\* defaultdict(int) of _load_patterns
EmptyPatterns == [k \in {} |-> 0]

\* the literal of _load_success_metrics
DefaultMetrics ==
    [total_events |-> 0, successful_updates |-> 0, failed_updates |-> 0, total_patterns |-> 0]

\* defaultdict(lambda: {...}) of _load_agent_effectiveness; last_used 0 stands for None
EmptyEffectiveness == [k \in {} |-> 0]
DefaultRecord ==
    [total_spawned |-> 0, successful_updates |-> 0, average_confidence |-> Zero, last_used |-> 0]

EmptyLog == << >>

\* dict.get(key, default)
Get(d, key, default) == IF key \in DOMAIN d THEN d[key] ELSE default

\* json.dump of a dict: the object's members; json.load of an object: the dict
DumpObj(d) == {<<k, d[k]>> : k \in DOMAIN d}
LoadObj(doc) == [k \in {m[1] : m \in doc} |-> (CHOOSE m \in doc : m[1] = k)[2]]

\* The content of a file.  kind:
\*   "absent"     the file does not exist
\*   "truncated"  open(file, 'w') has emptied it and the text is not complete yet
\*   "garbage"    text that is not JSON
\*   "null"       the JSON text null: parseable, not of the expected shape
\*   "json"       a complete document written by json.dump
\* doc is the document of a "json" content, and the empty document of the
\* file's type otherwise.
Content(kind, f, doc) ==
    [kind |-> kind, doc |-> IF kind = "json" THEN doc ELSE IF f = "learning_log" THEN << >> ELSE {}]

\* mutant of DocOf: the effectiveness file is written from self.patterns
DocOf_patterns_twice(f, p, m, e, l) ==
    CASE f = "patterns" -> DumpObj(p)
      [] f = "success_metrics" -> DumpObj(m)
      [] f = "agent_effectiveness" -> DumpObj(p)
      [] f = "learning_log" -> l

\* json.dump of the structure kept in file f (lines 281-294)
DocOf(f, p, m, e, l) ==
    CASE f = "patterns" -> DumpObj(p)
      [] f = "success_metrics" -> DumpObj(m)
      [] f = "agent_effectiveness" -> DumpObj(e)
      [] f = "learning_log" -> l

\* the value of one _load_* method (lines 48-105): [raised, shape, val]
LoadDefault(f) ==
    CASE f = "patterns" -> EmptyPatterns
      [] f = "success_metrics" -> DefaultMetrics
      [] f = "agent_effectiveness" -> EmptyEffectiveness
      [] f = "learning_log" -> EmptyLog

Load(f, content) ==
    CASE content.kind \in {"absent", "truncated", "garbage"} ->
            \* not exists(), or JSONDecodeError caught: the default
            [raised |-> FALSE, shape |-> "ok", val |-> LoadDefault(f)]
      [] content.kind = "null" ->
            \* json.load returns None; only _load_agent_effectiveness uses the
            \* value (result.update(None): TypeError, not caught)
            [raised |-> (f = "agent_effectiveness"), shape |-> "none", val |-> LoadDefault(f)]
      [] content.kind = "json" ->
            [raised |-> FALSE, shape |-> "ok",
             val |-> IF f = "learning_log" THEN content.doc ELSE LoadObj(content.doc)]

(***************************************************************************)
(* learn_from_event, lines 124-178: the in-memory update                   *)
(***************************************************************************)
LogCap == 100

Outcomes == {"success", "partial", "failure"}

UpdateAgent_preincrement(eff, agent, updates_made, timestamp) ==
    LET agent_key == agent.agent_type
        old == Get(eff, agent_key, DefaultRecord)
        total_spawned == old.total_spawned + 1
        new_avg == RatMul(RatAdd(RatMul(old.average_confidence, <<total_spawned, 1>>),
                                 Rat(agent.confidence, 10)),
                          <<1, total_spawned>>)
        agent_updates == SelectSeq(updates_made, LAMBDA u : u.agent = agent.agent_type)
        rec == [total_spawned |-> total_spawned,
                successful_updates |-> old.successful_updates + Len(agent_updates),
                average_confidence |-> new_avg,
                last_used |-> timestamp]
    IN  [k \in DOMAIN eff \cup {agent_key} |-> IF k = agent_key THEN rec ELSE eff[k]]

\* lines 141-158, one iteration; agent_effectiveness[agent_key] creates the
\* default record on first access
UpdateAgent(eff, agent, updates_made, timestamp) ==
    LET agent_key == agent.agent_type
        old == Get(eff, agent_key, DefaultRecord)
        total_spawned == old.total_spawned + 1
        current_avg == old.average_confidence
        new_avg == RatMul(RatAdd(RatMul(current_avg, <<total_spawned - 1, 1>>),
                                 Rat(agent.confidence, 10)),
                          <<1, total_spawned>>)
        agent_updates == SelectSeq(updates_made, LAMBDA u : u.agent = agent.agent_type)
        rec == [total_spawned |-> total_spawned,
                successful_updates |-> old.successful_updates + Len(agent_updates),
                average_confidence |-> new_avg,
                last_used |-> timestamp]
    IN  [k \in DOMAIN eff \cup {agent_key} |-> IF k = agent_key THEN rec ELSE eff[k]]

RECURSIVE UpdateAgents(_, _, _, _)
UpdateAgents(eff, agents_generated, updates_made, timestamp) ==
    IF agents_generated = << >> THEN eff
    ELSE UpdateAgents(UpdateAgent(eff, Head(agents_generated), updates_made, timestamp),
                      Tail(agents_generated), updates_made, timestamp)

\* mutant of BumpPattern: the count is set, not incremented
BumpPattern_reset(p, pattern_key) ==
    [k \in DOMAIN p \cup {pattern_key} |-> IF k = pattern_key THEN 1 ELSE p[k]]

\* line 130: self.patterns[pattern_key] = self.patterns.get(pattern_key, 0) + 1
BumpPattern(p, pattern_key) ==
    [k \in DOMAIN p \cup {pattern_key} |-> IF k = pattern_key THEN Get(p, pattern_key, 0) + 1 ELSE p[k]]

BumpMetrics_skip_partial(m, outcome) ==
    [m EXCEPT !.total_events = IF outcome = "partial" THEN @ ELSE @ + 1,
              !.successful_updates = IF outcome = "success" THEN @ + 1 ELSE @,
              !.failed_updates = IF outcome = "failure" THEN @ + 1 ELSE @]

\* mutant of BumpMetrics: every outcome but 'failure' counts as a success
BumpMetrics_else_success(m, outcome) ==
    [m EXCEPT !.total_events = @ + 1,
              !.successful_updates = IF outcome # "failure" THEN @ + 1 ELSE @,
              !.failed_updates = IF outcome = "failure" THEN @ + 1 ELSE @]

\* lines 133-138
BumpMetrics(m, outcome) ==
    [m EXCEPT !.total_events = @ + 1,
              !.successful_updates = IF outcome = "success" THEN @ + 1 ELSE @,
              !.failed_updates = IF outcome = "failure" THEN @ + 1 ELSE @]

\* lines 161-172
LearningEvent(event, pattern_key, agents_generated, outcome, updates_made, timestamp) ==
    [timestamp |-> timestamp,
     pattern_key |-> pattern_key,
     agents_spawned |-> [i \in 1..Len(agents_generated) |-> agents_generated[i].agent_type],
     outcome |-> outcome,
     updates_count |-> Len(updates_made),
     event_summary |-> [files |-> EventData[event].files,
                        message |-> EventData[event].message,
                        error_count |-> Len(EventData[event].errors)]]

\* mutant of AppendTrim: the slice keeps the head, [:100]
AppendTrim_head(log, entry) ==
    LET l == Append(log, entry)
    IN  IF Len(l) > LogCap THEN SubSeq(l, 1, LogCap) ELSE l

\* lines 174-178: append, then keep the last 100
AppendTrim(log, entry) ==
    LET l == Append(log, entry)
    IN  IF Len(l) > LogCap THEN SubSeq(l, Len(l) - LogCap + 1, Len(l)) ELSE l

\* The structure whose use raises first, "" when none does: None.get (130),
\* None['total_events'] (133), None.append (174).
LearnRaisesAt ==
    IF shape["patterns"] # "ok" THEN "patterns"
    ELSE IF shape["success_metrics"] # "ok" THEN "success_metrics"
    ELSE IF shape["learning_log"] # "ok" THEN "learning_log"
    ELSE ""

\* The memory after lines 124-178 ran as far as they get.
LearnMemory(event, agents_generated, outcome, updates_made, timestamp) ==
    LET at == LearnRaisesAt
        pattern_key == KeyOf[event]
    IN  [patterns |-> IF at = "patterns" THEN patterns ELSE BumpPattern(patterns, pattern_key),
         success_metrics |-> IF at \in {"patterns", "success_metrics"} THEN success_metrics
                             ELSE BumpMetrics(success_metrics, outcome),
         agent_effectiveness |-> IF at \in {"patterns", "success_metrics"} THEN agent_effectiveness
                                 ELSE UpdateAgents(agent_effectiveness, agents_generated, updates_made, timestamp),
         learning_log |-> IF at # "" THEN learning_log
                          ELSE AppendTrim(learning_log,
                                   LearningEvent(event, pattern_key, agents_generated, outcome, updates_made, timestamp))]


(***************************************************************************)
(* get_recommended_agents, lines 227-260                                   *)
(***************************************************************************)
\* set(pattern.split('|'))
Components(pattern) == {pattern[i] : i \in 1..Len(pattern)}

\* mutant of _calculate_pattern_similarity: the share of the first key's
\* components found in the second
_calculate_pattern_similarity_of_first(pattern1, pattern2) ==
    LET components1 == Components(pattern1)
        components2 == Components(pattern2)
    IN  IF components1 = {} \/ components2 = {} THEN Zero
        ELSE Rat(Cardinality(components1 \cap components2), Cardinality(components1))

\* lines 262-275
_calculate_pattern_similarity(pattern1, pattern2) ==
    LET components1 == Components(pattern1)
        components2 == Components(pattern2)
        intersection == Cardinality(components1 \cap components2)
        union == Cardinality(components1 \cup components2)
    IN  IF components1 = {} \/ components2 = {} THEN Zero
        ELSE IF union > 0 THEN Rat(intersection, union) ELSE Zero

\* mutant of PassesThreshold: >= 0.5
PassesThreshold_ge(similarity) == ~RatLess(similarity, <<1, 2>>)

\* line 233: if similarity > 0.5
PassesThreshold(similarity) == RatLess(<<1, 2>>, similarity)

\* lines 230-234: stored pattern -> count * similarity, for the patterns that pass
SimilarPatterns(pattern_key, p) ==
    [stored_pattern \in
        {q \in DOMAIN p : PassesThreshold(_calculate_pattern_similarity(pattern_key, q))}
     |-> RatMul(<<p[stored_pattern], 1>>, _calculate_pattern_similarity(pattern_key, stored_pattern))]

\* lines 245-249: the dict literal and its .get(outcome, 0.0)
OutcomeScore(outcome) ==
    CASE outcome = "success" -> <<1, 1>>
      [] outcome = "partial" -> <<1, 2>>
      [] outcome = "failure" -> Zero
      [] OTHER -> Zero

\* agent_scores is a defaultdict(float): its keys in insertion order (order)
\* and their values (score).  Line 251 for one agent_type of one log entry.
AddScore(acc, agent_type, amount) ==
    [order |-> IF agent_type \in DOMAIN acc.score THEN acc.order ELSE Append(acc.order, agent_type),
     score |-> [t \in DOMAIN acc.score \cup {agent_type} |->
                   IF t = agent_type THEN RatAdd(Get(acc.score, agent_type, Zero), amount)
                   ELSE acc.score[t]]]

RECURSIVE ScoreEntry(_, _, _, _)
ScoreEntry(acc, agents_spawned, weight, outcome) ==
    IF agents_spawned = << >> THEN acc
    ELSE ScoreEntry(AddScore(acc, Head(agents_spawned), RatMul(weight, OutcomeScore(outcome))),
                    Tail(agents_spawned), weight, outcome)

\* lines 239-251
RECURSIVE ScoreLog(_, _, _)
ScoreLog(acc, log, similar_patterns) ==
    IF log = << >> THEN acc
    ELSE LET learning_event == Head(log)
             next == IF learning_event.pattern_key \in DOMAIN similar_patterns
                     THEN ScoreEntry(acc, learning_event.agents_spawned,
                                     similar_patterns[learning_event.pattern_key],
                                     learning_event.outcome)
                     ELSE acc
         IN  ScoreLog(next, Tail(log), similar_patterns)

AgentScores(pattern_key, p, log) ==
    ScoreLog([order |-> << >>, score |-> [t \in {} |-> Zero]], log, SimilarPatterns(pattern_key, p))

\* sorted(items, key=score, reverse=True): stable, so among equal scores the
\* earlier item of `order` comes first
RECURSIVE SortedByScore(_, _)
SortedByScore(order, score) ==
    IF order = << >> THEN << >>
    ELSE LET best == CHOOSE i \in 1..Len(order) :
                        /\ \A j \in 1..Len(order) : ~RatLess(score[order[i]], score[order[j]])
                        /\ \A j \in 1..(i - 1) : RatLess(score[order[j]], score[order[i]])
             rest == [j \in 1..(Len(order) - 1) |-> IF j < best THEN order[j] ELSE order[j + 1]]
         IN  <<order[best]>> \o SortedByScore(rest, score)

TopN == 3

\* mutant of Recommended: the items are not sorted before the slice
Recommended_unsorted(acc) ==
    SubSeq(acc.order, 1, IF Len(acc.order) < TopN THEN Len(acc.order) ELSE TopN)

\* lines 254-260: sorted(...), then sorted_agents[:3]
Recommended(acc) ==
    LET sorted_agents == SortedByScore(acc.order, acc.score)
    IN  SubSeq(sorted_agents, 1, IF Len(sorted_agents) < TopN THEN Len(sorted_agents) ELSE TopN)

(***************************************************************************)
(* The store process                                                       *)
(***************************************************************************)
At(where, i) == [at |-> where, file |-> i]

NoCall == [op |-> "none", event |-> "", agents |-> << >>, outcome |-> "", updates |-> << >>,
           raised |-> FALSE, result |-> << >>, scores |-> [t \in {} |-> Zero]]

Memory == [patterns |-> patterns, success_metrics |-> success_metrics,
           agent_effectiveness |-> agent_effectiveness, learning_log |-> learning_log]

\* the complete text json.dump writes to file f for memory mem
NewContent(f, mem) ==
    Content("json", f, DocOf(f, mem.patterns, mem.success_metrics, mem.agent_effectiveness, mem.learning_log))

NoRead == [file |-> "", seen |-> 0, prior |-> 0, next |-> 0, during |-> FALSE, writer |-> 0]

\* LearningEngine(): lines 33-46.  The four loads run in order; the first one
\* that raises ends the construction and no object exists.
__init__ ==
    /\ pc.at = "down"
    /\ LET ld == [f \in Files |-> Load(f, disk[f])]
           raised == \E f \in Files : ld[f].raised
       IN  /\ pc' = IF raised THEN pc ELSE At("idle", 0)
           /\ patterns' = IF raised THEN patterns ELSE ld["patterns"].val
           /\ success_metrics' = IF raised THEN success_metrics ELSE ld["success_metrics"].val
           /\ agent_effectiveness' = IF raised THEN agent_effectiveness ELSE ld["agent_effectiveness"].val
           /\ learning_log' = IF raised THEN learning_log ELSE ld["learning_log"].val
           /\ shape' = IF raised THEN shape ELSE [f \in Files |-> ld[f].shape]
           /\ call' = [NoCall EXCEPT !.op = "init", !.raised = raised]
    /\ UNCHANGED <<disk, clock, committed, reader, gen, probe, loop, flow>>

\* learn_from_event with _save_all_data run to its end (lines 107-181, 277-294)
learn_from_event(event, agents_generated, outcome, updates_made) ==
    /\ pc.at = "idle"
    /\ clock' = clock + 1
    /\ \E mem \in {LearnMemory(event, agents_generated, outcome, updates_made, clock + 1)} :
         LET raised == LearnRaisesAt # ""
         IN  /\ patterns' = mem.patterns
             /\ success_metrics' = mem.success_metrics
             /\ agent_effectiveness' = mem.agent_effectiveness
             /\ learning_log' = mem.learning_log
             /\ disk' = IF raised THEN disk ELSE [f \in Files |-> NewContent(f, mem)]
             /\ call' = [NoCall EXCEPT !.op = "learn", !.event = event, !.agents = agents_generated,
                                       !.outcome = outcome, !.updates = updates_made, !.raised = raised]
    /\ UNCHANGED <<pc, shape, committed, reader, gen, probe, loop, flow>>

\* learn_from_event up to the call of _save_all_data (lines 124-181)
learn_from_event_body(event, agents_generated, outcome, updates_made) ==
    /\ pc.at = "idle"
    /\ clock' = clock + 1
    /\ \E mem \in {LearnMemory(event, agents_generated, outcome, updates_made, clock + 1)} :
         LET raised == LearnRaisesAt # ""
         IN  /\ patterns' = mem.patterns
             /\ success_metrics' = mem.success_metrics
             /\ agent_effectiveness' = mem.agent_effectiveness
             /\ learning_log' = mem.learning_log
             /\ pc' = IF raised THEN pc ELSE At("open", 1)
             /\ committed' = IF raised THEN committed
                             ELSE [f \in Files |-> [prior |-> disk[f], next |-> NewContent(f, mem)]]
             /\ call' = [NoCall EXCEPT !.op = "learn", !.event = event, !.agents = agents_generated,
                                       !.outcome = outcome, !.updates = updates_made, !.raised = raised]
    /\ UNCHANGED <<shape, disk, reader, gen, probe, loop, flow>>

\* _save_all_data: `with open(file, 'w') as f` empties the file
save_open ==
    /\ pc.at = "open"
    /\ disk' = [disk EXCEPT ![FileOrder[pc.file]] = Content("truncated", FileOrder[pc.file], << >>)]
    /\ pc' = At("dump", pc.file)
    /\ UNCHANGED <<patterns, success_metrics, agent_effectiveness, learning_log, shape,
                   clock, call, committed, reader, gen, probe, loop, flow>>

\* _save_all_data: json.dump(...) and the end of the with block complete the file
save_dump ==
    /\ pc.at = "dump"
    /\ disk' = [disk EXCEPT ![FileOrder[pc.file]] = NewContent(FileOrder[pc.file], Memory)]
    /\ pc' = IF pc.file < Len(FileOrder) THEN At("open", pc.file + 1) ELSE At("idle", 0)
    /\ UNCHANGED <<patterns, success_metrics, agent_effectiveness, learning_log, shape,
                   clock, call, committed, reader, gen, probe, loop, flow>>

\* get_recommended_agents: None.items() (231) and iterating None (239) raise
get_recommended_agents(event) ==
    /\ pc.at = "idle"
    /\ LET raised == shape["patterns"] # "ok" \/ shape["learning_log"] # "ok"
       IN  \E acc \in {AgentScores(KeyOf[event], patterns, learning_log)} :
             call' = [NoCall EXCEPT !.op = "recommend", !.event = event, !.raised = raised,
                                    !.result = IF raised THEN << >> ELSE Recommended(acc),
                                    !.scores = IF raised THEN NoCall.scores ELSE acc.score]
    /\ UNCHANGED <<pc, patterns, success_metrics, agent_effectiveness, learning_log, shape,
                   disk, clock, committed, reader, gen, probe, loop, flow>>

\* get_learning_summary (lines 296-339): the counts read from the four
\* structures.  sorted() builds new lists from .items(); the two sorted lists
\* and the formatted success_rate are computed from the same reads and are not
\* part of the result kept here.
get_learning_summary ==
    /\ pc.at = "idle"
    /\ LET raised == \E f \in Files : shape[f] # "ok"
       IN  call' = [NoCall EXCEPT !.op = "summary", !.raised = raised,
                                  !.result = IF raised THEN << >>
                                             ELSE << <<"total_events_processed", success_metrics.total_events>>,
                                                     <<"successful_updates", success_metrics.successful_updates>>,
                                                     <<"failed_updates", success_metrics.failed_updates>>,
                                                     <<"patterns_learned", Cardinality(DOMAIN patterns)>>,
                                                     <<"learning_events_logged", Len(learning_log)>> >>]
    /\ UNCHANGED <<pc, patterns, success_metrics, agent_effectiveness, learning_log, shape,
                   disk, clock, committed, reader, gen, probe, loop, flow>>

HasData_always(eff, agent_type) == TRUE

\* line 344: agent_type in self.agent_effectiveness
HasData(eff, agent_type) == agent_type \in DOMAIN eff

\* get_agent_insights (lines 341-369); the formatted average_confidence is not
\* part of the result kept here
get_agent_insights(agent_type) ==
    /\ pc.at = "idle"
    /\ LET raised == shape["learning_log"] # "ok"
           known == HasData(agent_effectiveness, agent_type)
           \* line 347, defaultdict.__getitem__: a missing key is inserted with the default record
           eff == IF known THEN [k \in DOMAIN agent_effectiveness \cup {agent_type} |->
                                    Get(agent_effectiveness, k, DefaultRecord)]
                  ELSE agent_effectiveness
           data == eff[agent_type]
           last20 == IF Len(learning_log) > 20
                     THEN SubSeq(learning_log, Len(learning_log) - 19, Len(learning_log))
                     ELSE learning_log
           recent_events == SelectSeq(last20,
                               LAMBDA e : \E i \in 1..Len(e.agents_spawned) : e.agents_spawned[i] = agent_type)
       IN  /\ agent_effectiveness' = eff
           /\ call' = [NoCall EXCEPT
                         !.op = "insights", !.event = agent_type, !.raised = known /\ raised,
                         !.result = IF ~known THEN << <<"error", agent_type>> >>
                                    ELSE IF raised THEN << >>
                                    ELSE << <<"agent_type", agent_type>>,
                                            <<"total_spawned", data.total_spawned>>,
                                            <<"successful_updates", data.successful_updates>>,
                                            <<"last_used", data.last_used>>,
                                            <<"recent_performance",
                                              [i \in 1..Len(recent_events) |->
                                                 <<recent_events[i].timestamp, recent_events[i].outcome,
                                                   recent_events[i].updates_count>>]>> >>]
    /\ UNCHANGED <<pc, patterns, success_metrics, learning_log, shape,
                   disk, clock, committed, reader, gen, probe, loop, flow>>

\* no coroutine has been started
NoLoop == [at |-> <<"none", "none">>,
           args |-> <<NoCall, NoCall>>,
           start |-> [mem |-> [patterns |-> EmptyPatterns, success_metrics |-> DefaultMetrics,
                               agent_effectiveness |-> EmptyEffectiveness, learning_log |-> EmptyLog],
                      clock |-> 0],
           order |-> << >>]

\* Two learn_from_event coroutines are handed to one event loop before either
\* runs (asyncio.gather, asyncio.create_task): each waits for the loop to run it.
gather(args1, args2) ==
    /\ pc.at = "idle"
    /\ loop.at = <<"none", "none">>
    /\ loop' = [at |-> <<"ready", "ready">>,
                args |-> <<args1, args2>>,
                start |-> [mem |-> Memory, clock |-> clock],
                order |-> << >>]
    /\ UNCHANGED <<storeVars, gen, probe, flow>>

Suspends_always(line) == TRUE

\* Whether the await at a line of learn_from_event gives control back to the
\* event loop.  The only await is line 181, `await self._save_all_data()`; it
\* awaits a coroutine whose body (277-294) holds no await, so that body runs
\* inside the awaiting task and the loop is not entered.
Suspends(line) == FALSE

\* The event loop runs task i until the task gives control back or ends: from
\* its start, lines 124-178 and then line 181; from line 181, _save_all_data.
task_run(i) ==
    /\ pc.at = "idle"
    /\ loop.at[i] \in {"ready", "save"}
    /\ LET a == loop.args[i]
           starting == loop.at[i] = "ready"
           mem == IF starting THEN LearnMemory(a.event, a.agents, a.outcome, a.updates, clock + 1)
                  ELSE Memory
           raised == starting /\ LearnRaisesAt # ""
           suspended == starting /\ ~raised /\ Suspends(181)
       IN  /\ clock' = IF starting THEN clock + 1 ELSE clock
           /\ patterns' = mem.patterns
           /\ success_metrics' = mem.success_metrics
           /\ agent_effectiveness' = mem.agent_effectiveness
           /\ learning_log' = mem.learning_log
           /\ disk' = IF raised \/ suspended THEN disk ELSE [f \in Files |-> NewContent(f, mem)]
           /\ call' = [a EXCEPT !.op = "learn", !.raised = raised]
           /\ loop' = [loop EXCEPT !.at[i] = IF suspended THEN "save" ELSE "done",
                                   !.order = IF suspended THEN @ ELSE Append(@, i)]
    /\ UNCHANGED <<pc, shape, committed, reader, gen, probe, flow>>

\* The process holding the store dies: its memory is gone, the files stay.
Crash ==
    /\ pc.at # "down"
    /\ pc' = At("down", 0)
    /\ patterns' = EmptyPatterns
    /\ success_metrics' = DefaultMetrics
    /\ agent_effectiveness' = EmptyEffectiveness
    /\ learning_log' = EmptyLog
    /\ shape' = [f \in Files |-> "ok"]
    /\ call' = [NoCall EXCEPT !.op = "crash"]
    /\ UNCHANGED <<disk, clock, committed, reader, gen, probe, loop, flow>>

\* A second LearningEngine() on the same storage_path opens file f (lines
\* 52, 62, 77, 101) while the writer is inside _save_all_data.
reader_load(f) ==
    /\ pc.at \in {"open", "dump"}
    /\ reader' = [file |-> f, seen |-> disk[f], prior |-> committed[f].prior,
                   next |-> committed[f].next, during |-> TRUE, writer |-> 0]
    /\ UNCHANGED <<pc, patterns, success_metrics, agent_effectiveness, learning_log, shape,
                   disk, clock, call, committed, gen, probe, loop, flow>>

\* A second LearningEngine() on the same storage_path, constructed while the
\* writer is between two calls (lines 42-46).  seen is what each of its four
\* loads returned; writer is the memory of the first object at that moment.
second_store ==
    /\ pc.at = "idle"
    /\ reader' = [file |-> "all", seen |-> [f \in Files |-> Load(f, disk[f])],
                   prior |-> 0, next |-> 0, during |-> FALSE, writer |-> Memory]
    /\ UNCHANGED <<pc, patterns, success_metrics, agent_effectiveness, learning_log, shape,
                   disk, clock, call, committed, gen, probe, loop, flow>>

(***************************************************************************)
(* Specifications of the store                                             *)
(***************************************************************************)
\* no event under study
NoProbe == [done |-> {}, event |-> [files |-> << >>, message |-> << >>, errors |-> << >>],
            key |-> << >>, context |-> << >>, agents |-> << >>]

\* no call of a generator in progress
GenIdle == [at |-> "idle", mode |-> "", event |-> "", llm |-> "",
            response |-> [kind |-> "none", exc |-> "", has_agents |-> FALSE, agents |-> << >>],
            result |-> << >>, raised |-> FALSE, path |-> "", uuid4 |-> << >>]


Agent(type, tenths) == [agent_type |-> type, confidence |-> tenths]
Update(type) == [agent |-> type]

\* (agents_generated, updates_made) pairs passed to learn_from_event.  A list
\* holds one spec per agent_type, as every generator of the repository
\* produces it.
LearnInputs ==
    { <<  <<Agent("security_specialist", 8)>>,  << >>  >>,
      <<  <<Agent("mvp_strategist", 3)>>,       <<Update("mvp_strategist")>>  >>,
      <<  <<Agent("error_handler", 10), Agent("mvp_strategist", 6), Agent("documentation_specialist", 10), Agent("security_specialist", 5)>>,
          <<Update("security_specialist"), Update("performance_expert"), Update("security_specialist")>>  >> }

LearnEvents == {"security", "plain", "mvp"}

MaxCalls == 2

(***************************************************************************)
(* MessageHandler (streams/message_handler.py), WorkflowManager            *)
(* (orchestration/workflow_manager.py) and the workflows kept by           *)
(* StackAIClient (orchestration/stackai_client.py).  Text is a sequence of *)
(* characters; None is the value below.                                    *)
(***************************************************************************)
None == <<"None">>

\* MessageHandler.__init__ (62-65), WorkflowManager.__init__ (40-46) and
\* StackAIClient.__init__ (40-41).  suspended is the handler waiting in
\* asyncio.sleep (message number 0: none) and runner the message whose
\* send_message call runs _process_queue; accepted, delivered, returned and
\* coordinated are the histories of appends to the queue, handler calls,
\* values returned by send_message and calls of coordinate_agents, direct the
\* number of those calls not made by the handler.
NoFlow ==
    [message_queue |-> << >>, is_processing |-> FALSE,
     suspended |-> [n |-> 0, sender_id |-> "", message_type |-> "", content |-> [status |-> ""],
                    context |-> [focus_area |-> << >>, code_changes |-> << >>], handler |-> 0, t0 |-> 0],
     active_workflows |-> << >>, workflows |-> << >>, now |-> 0,
     accepted |-> << >>, delivered |-> << >>, returned |-> << >>, coordinated |-> << >>, runner |-> 0, direct |-> 0,
     result |-> [success |-> FALSE, workflow_id |-> << >>, execution_id |-> << >>, agents_generated |-> << >>,
                 documentation_updates |-> << >>, learning_events |-> << >>, error_message |-> "",
                 context_id |-> << >>, workflow_name |-> << >>],
     status |-> [context_id |-> << >>, asked |-> FALSE, info |-> [found |-> FALSE, name |-> << >>, agents |-> << >>]]]

\* _register_message_handlers (81-91); agent_generation_handler is the example
\* handler of message_handler.py 211-218, which only logs
handlers ==
    [agent_generation |-> <<"_handle_agent_generation_request", "agent_generation_handler">>,
     workflow_trigger |-> <<"_handle_workflow_trigger">>]

list_of_set_as_list(agents_needed) == {agents_needed}

\* line 236, list(set(agents_needed)): the lists the call can return; the
\* order in which a set of str is iterated is not fixed
list_of_set(agents_needed) ==
    LET set == {agents_needed[i] : i \in 1..Len(agents_needed)}
    IN  {l \in [1..Cardinality(set) -> set] : \A i, j \in DOMAIN l : i # j => l[i] # l[j]}

\* _determine_agents_needed (210-236): the lists it can return, or the
\* AttributeError of None.lower()
_determine_agents_needed(context) ==
    LET \* any(kw1 in change.lower() or kw2 in change.lower() for change in code_changes):
        \* "raise" when a change that is None is reached before a match
        RECURSIVE AnyChange(_, _)
        AnyChange(code_changes, kws) ==
            IF code_changes = << >> THEN "no"
            ELSE IF Head(code_changes) = None THEN "raise"
            ELSE IF \E change \in {Lower(Head(code_changes))} : \E kw \in kws : Contains(change, kw) THEN "yes"
            ELSE AnyChange(Tail(code_changes), kws)
        \* lines 220-230: the three conditions under the lowered focus area
        Focus(focus_area) ==
            <<IF focus_area = <<"s","e","c","u","r","i","t","y">> THEN "yes"
              ELSE AnyChange(context.code_changes, {<<"a","u","t","h">>, <<"s","e","c","u","r","i","t","y">>}),
              IF focus_area = <<"m","v","p">> THEN "yes"
              ELSE AnyChange(context.code_changes, {<<"p","r","o","t","o","t","y","p","e">>, <<"f","e","a","t","u","r","e">>}),
              IF focus_area = <<"p","e","r","f","o","r","m","a","n","c","e">> THEN "yes"
              ELSE AnyChange(context.code_changes, {<<"o","p","t","i","m","i","z","e">>, <<"p","e","r","f","o","r","m","a","n","c","e">>})>>
        Needed(focus_area, security, mvp, performance) ==
            LET raised == \/ context.focus_area = None
                          \/ security = "raise"
                          \/ mvp = "raise"
                          \/ performance = "raise"
                agents_needed == <<"documentation_agent">>
                                   \o (IF security = "yes" THEN <<"security_specialist">> ELSE << >>)
                                   \o (IF mvp = "yes" THEN <<"mvp_strategist">> ELSE << >>)
                                   \o (IF performance = "yes" THEN <<"performance_expert">> ELSE << >>)
                extended == IF focus_area = <<"g","e","n","e","r","a","l">> \/ Len(agents_needed) = 1
                            THEN agents_needed \o <<"security_specialist", "mvp_strategist", "performance_expert">>
                            ELSE agents_needed
            IN  [raised |-> raised,
                 lists |-> IF raised THEN {<< >>} ELSE list_of_set(extended)]
    IN  CHOOSE needed \in
          UNION {{Needed(focus_area, any[1], any[2], any[3]) : any \in {Focus(focus_area)}}
                 : focus_area \in {Lower(context.focus_area)}} : TRUE

\* StackAIClient.get_workflow_info (348-361): self.workflows is a dict keyed
\* by the workflow's name; found FALSE is the None of line 351
get_workflow_info(workflows, workflow_name) ==
    IF \E i \in 1..Len(workflows) : workflows[i].name = workflow_name
    THEN LET workflow == workflows[CHOOSE i \in 1..Len(workflows) : workflows[i].name = workflow_name]
         IN  [found |-> TRUE, name |-> workflow.name, agents |-> workflow.agents]
    ELSE NoFlow.status.info

\* coordinate_agents (140-208) on flow fl: agents is the list
\* _determine_agents_needed returned, t0 the second in which the call started,
\* d the seconds that pass in asyncio.sleep(0.1) of _create_stackai_workflow.
\* The value is fl with the result, the workflows and active_workflows.
Coordination(flow0, context, agents, t0, d) ==
  CHOOSE after \in {
    LET \* d[key] = value on a dict kept as a sequence of entries in insertion
        \* order (an entry has the field name as its key)
        DictSet(dict, entry) ==
            IF \E i \in 1..Len(dict) : dict[i].name = entry.name
            THEN [i \in 1..Len(dict) |-> IF dict[i].name = entry.name THEN entry ELSE dict[i]]
            ELSE Append(dict, entry)
        \* str(int(time.time())): the clock of the model counts seconds from 0
        IntStr(t) == <<ToString(t)>>
        needed == _determine_agents_needed(context)
        t1 == fl.now + d
        workflow_name == <<"d","i","a","l","e","c","t","i","c","_","c","o","n","t","e","x","t","_">> \o IntStr(t0)
        workflow_id == <<"w","o","r","k","f","l","o","w","_">> \o IntStr(t1)
        \* execute_workflow (213-256): the name of the first workflow whose
        \* metadata holds workflow_id
        workflows1 == DictSet(fl.workflows, [name |-> workflow_name, workflow_id |-> workflow_id, agents |-> agents])
        execution_id == IF \E i \in 1..Len(workflows1) : workflows1[i].workflow_id = workflow_id
                        THEN <<"e","x","e","c","_">> \o IntStr(t1) ELSE << >>
        \* ', '.join(context.code_changes) raises TypeError on a None item
        join_raises == \E i \in 1..Len(context.code_changes) : context.code_changes[i] = None
        file_of == [security_specialist |-> "security_patterns.md", mvp_strategist |-> "mvp_guidelines.md",
                    performance_expert |-> "performance_patterns.md"]
        updating == SelectSeq(agents, LAMBDA a : a \in DOMAIN file_of)
        documentation_updates == [i \in 1..Len(updating) |-> file_of[updating[i]]] \o <<"dialectic_analysis.md">>
        context_id == context.focus_area \o <<"_">> \o IntStr(t1)
        failure(exception) == [NoFlow.result EXCEPT !.error_message = exception]
    IN  IF needed.raised
        THEN [fl EXCEPT !.result = failure("AttributeError"), !.coordinated = Append(@, context)]
        ELSE IF join_raises
        THEN [fl EXCEPT !.result = failure("TypeError"), !.coordinated = Append(@, context),
                        !.now = t1, !.workflows = workflows1]
        ELSE [fl EXCEPT !.now = t1, !.workflows = workflows1,
                        !.active_workflows = DictSet(@, [name |-> context_id, workflow_id |-> workflow_id]),
                        !.coordinated = Append(@, context),
                        !.result = [success |-> TRUE, workflow_id |-> workflow_id, execution_id |-> execution_id,
                                    agents_generated |-> agents,
                                    documentation_updates |-> documentation_updates,
                                    learning_events |-> <<"pattern_recognized", "agents_generated">>,
                                    error_message |-> "",
                                    context_id |-> context_id, workflow_name |-> workflow_name]]
    : fl \in {flow0} } : TRUE

RecursionGuard_never(message) == FALSE

\* line 97: message.sender_id == "workflow_manager"
RecursionGuard(message) == message.sender_id = "workflow_manager"

\* send_message (75-89) up to the point where the caller is suspended or has
\* its value, _process_queue (91-104) from the test of its while loop, and
\* _process_message (106-124) from the h-th handler of the message's type.
\* _handle_agent_generation_request returns at once for its own messages; for
\* a context that _determine_agents_needed rejects, coordinate_agents returns
\* at once and the result is broadcast; otherwise the handler is suspended in
\* the asyncio.sleep of _create_stackai_workflow.  _handle_workflow_trigger
\* (124-138) does nothing for a content without workflow_name.
\* Each operator takes the value of the flow it is given once (fl \in {flow0}).
RECURSIVE send_message_on(_, _, _, _), _process_queue(_), _process_message(_, _, _)
_process_queue_pop_last(flow0) ==
    IF flow0.message_queue = << >>
    THEN [flow0 EXCEPT !.is_processing = FALSE, !.runner = 0, !.returned = Append(@, <<flow0.runner, TRUE>>)]
    ELSE _process_message([flow0 EXCEPT !.message_queue = SubSeq(@, 1, Len(@) - 1)],
                          flow0.message_queue[Len(flow0.message_queue)], 1)

send_message_on(flow0, sender_id, message_type, content) ==
    CHOOSE after \in
      { LET message == [n |-> Len(fl.accepted) + 1, sender_id |-> sender_id,
                        message_type |-> message_type, content |-> content]
            fl1 == [fl EXCEPT !.message_queue = Append(@, message), !.accepted = Append(@, message)]
        IN  IF fl.is_processing
            THEN [fl1 EXCEPT !.returned = Append(@, <<message.n, TRUE>>)]
            ELSE _process_queue([fl1 EXCEPT !.is_processing = TRUE, !.runner = message.n])
        : fl \in {flow0} } : TRUE

_process_queue(flow0) ==
    CHOOSE after \in
      { IF fl.message_queue = << >>
        THEN [fl EXCEPT !.is_processing = FALSE, !.runner = 0, !.returned = Append(@, <<fl.runner, TRUE>>)]
        ELSE _process_message([fl EXCEPT !.message_queue = Tail(@)], Head(fl.message_queue), 1)
        : fl \in {flow0} } : TRUE

_process_message(flow0, message, h) ==
    LET registered == Get(handlers, message.message_type, << >>)
        \* AgentContext(...) of lines 100-106: content.get(key, default)
        context == [focus_area |-> Get(message.content, "focus_area", <<"g","e","n","e","r","a","l">>),
                    code_changes |-> Get(message.content, "code_changes", << >>)]
    IN  CHOOSE after \in
          { IF h > Len(registered) THEN _process_queue(fl)
            ELSE LET fl1 == [fl EXCEPT !.delivered = Append(@, <<message.n, registered[h]>>)]
                 IN  IF registered[h] # "_handle_agent_generation_request" \/ RecursionGuard(message)
                     THEN _process_message(fl1, message, h + 1)
                     ELSE IF _determine_agents_needed(context).raised
                     THEN _process_message(
                              send_message_on(Coordination(fl1, context, << >>, fl.now, 0),
                                              "workflow_manager", "agent_generation", [status |-> "completed"]),
                              message, h + 1)
                     ELSE [fl1 EXCEPT !.suspended = [n |-> message.n, sender_id |-> message.sender_id,
                                                     message_type |-> message.message_type,
                                                     content |-> message.content, context |-> context,
                                                     handler |-> h, t0 |-> fl.now]]
            : fl \in {flow0} } : TRUE

MaxSends == 2
MaxNow == 1
MaxCoordinations == 1

\* Contexts handed to coordinate_agents and message contents handed to
\* send_message.  'Security' is spelled with a capital; the second context
\* is general and has a change that asks for the security agent; the third has
\* no focus_area, the fourth a code change that is None after one that matches
\* every keyword test.
FlowContexts ==
    { [focus_area |-> <<"S","e","c","u","r","i","t","y">>, code_changes |-> <<<<"s","r","c","/","a","u","t","h",".","p","y">>>>],
      [focus_area |-> <<"g","e","n","e","r","a","l">>, code_changes |-> <<<<"a","u","t","h",".","p","y">>>>],
      [focus_area |-> None, code_changes |-> << >>],
      [focus_area |-> <<"s","e","c","u","r","i","t","y">>, code_changes |-> <<<<"a","u","t","h"," ","f","e","a","t","u","r","e"," ","o","p","t","i","m","i","z","e">>, None>>] }

FlowMessages ==
    { [sender_id |-> "mcp_server", message_type |-> "agent_generation",
       content |-> [focus_area |-> <<"S","e","c","u","r","i","t","y">>, code_changes |-> <<<<"s","r","c","/","a","u","t","h",".","p","y">>>>]],
      [sender_id |-> "test_sender", message_type |-> "agent_generation",
       content |-> [focus_area |-> None]],
      [sender_id |-> "test_sender", message_type |-> "documentation_update",
       content |-> [action |-> "create"]],
      [sender_id |-> "test_sender", message_type |-> "workflow_trigger",
       content |-> [input_data |-> "none"]] }

\* A caller sends a message (send_message, or broadcast_message /
\* send_direct_message, which build the message with create_message and call
\* send_message).
send_message(message) ==
    /\ Cardinality({i \in 1..Len(flow.accepted) : flow.accepted[i].sender_id # "workflow_manager"}) < MaxSends
    /\ flow' = send_message_on(flow, message.sender_id, message.message_type, message.content)
    /\ UNCHANGED <<storeVars, gen, probe, loop>>

\* The handler suspended in asyncio.sleep is resumed: coordinate_agents runs to
\* its end (lines 157-208), lines 110-119 broadcast the result, and
\* _process_message and _process_queue go on.
_handle_agent_generation_request ==
    /\ flow.suspended.n # 0
    /\ LET message == flow.suspended
           context == message.context
       IN  \E d \in 0..1, agents \in _determine_agents_needed(context).lists :
             /\ flow.now + d <= MaxNow
             /\ \E fl1 \in {Coordination([flow EXCEPT !.suspended = NoFlow.suspended],
                                            context, agents, message.t0, d)} :
                   \E fl2 \in {IF message.sender_id # "workflow_manager"
                                THEN send_message_on(fl1, "workflow_manager", "agent_generation",
                                                     [status |-> "completed"])
                                ELSE fl1} :
                      flow' = _process_message(fl2, message, message.handler + 1)
    /\ UNCHANGED <<storeVars, gen, probe, loop>>

\* coordinate_agents called directly, as the test drivers do
coordinate_agents(context) ==
    /\ flow.direct < MaxCoordinations
    /\ LET needed == _determine_agents_needed(context)
       IN  \E d \in 0..1, agents \in needed.lists :
             /\ flow.now + d <= MaxNow
             /\ flow' = [Coordination(flow, context, agents, flow.now, d) EXCEPT !.direct = @ + 1]
    /\ UNCHANGED <<storeVars, gen, probe, loop>>

\* get_workflow_status (330-336)
get_workflow_status(context_id) ==
    /\ flow' = [flow EXCEPT !.status =
                  [context_id |-> context_id, asked |-> TRUE,
                   info |-> IF \E i \in 1..Len(flow.active_workflows) : flow.active_workflows[i].name = context_id
                            THEN LET workflow_id ==
                                       flow.active_workflows[CHOOSE i \in 1..Len(flow.active_workflows) :
                                                                flow.active_workflows[i].name = context_id].workflow_id
                                 IN  get_workflow_info(flow.workflows, workflow_id)
                            ELSE NoFlow.status.info]]
    /\ UNCHANGED <<storeVars, gen, probe, loop>>

\* A store constructed on an empty storage directory.
InitLearn ==
    /\ pc = At("idle", 0)
    /\ patterns = EmptyPatterns
    /\ success_metrics = DefaultMetrics
    /\ agent_effectiveness = EmptyEffectiveness
    /\ learning_log = EmptyLog
    /\ shape = [f \in Files |-> "ok"]
    /\ disk = [f \in Files |-> Content("absent", f, << >>)]
    /\ clock = 0
    /\ call = NoCall
    /\ committed = [f \in Files |-> [prior |-> disk[f], next |-> disk[f]]]
    /\ reader = NoRead
    /\ gen = GenIdle
    /\ probe = NoProbe
    /\ loop = NoLoop
    /\ flow = NoFlow

NextLearn ==
    \/ /\ clock < MaxCalls
       /\ \E event \in LearnEvents, input \in LearnInputs, outcome \in Outcomes :
            learn_from_event(event, input[1], outcome, input[2])
    \/ \E event \in LearnEvents : get_recommended_agents(event)

SpecLearn == InitLearn /\ [][NextLearn]_vars

\* One caller repeating one event: the log grows past its cap.
MaxLogCalls == 103

\* the outcome the caller reports on its n-th call
OutcomeAt(n) == CASE n % 3 = 1 -> "success" [] n % 3 = 2 -> "partial" [] OTHER -> "failure"

NextLog ==
    /\ clock < MaxLogCalls
    /\ learn_from_event("security", <<Agent("security_specialist", 8)>>, OutcomeAt(clock + 1), <<Update("security_specialist")>>)

SpecLog == InitLearn /\ [][NextLog]_vars

\* A store that learns and saves, and second stores constructed on its files.
MaxReloadCalls == 2

NextReload ==
    \/ /\ clock < MaxReloadCalls
       /\ \E event \in LearnEvents, input \in LearnInputs, outcome \in Outcomes :
            learn_from_event(event, input[1], outcome, input[2])
    \/ second_store

SpecReload == InitLearn /\ [][NextReload]_vars

\* The storage directory as a process may find it: each file absent, not
\* JSON, JSON of another shape, or the document of an empty store.
InitPersist ==
    /\ pc = At("down", 0)
    /\ patterns = EmptyPatterns
    /\ success_metrics = DefaultMetrics
    /\ agent_effectiveness = EmptyEffectiveness
    /\ learning_log = EmptyLog
    /\ shape = [f \in Files |-> "ok"]
    /\ \E kinds \in [Files -> {"absent", "garbage", "null", "json"}] :
          disk = [f \in Files |->
                    Content(kinds[f], f, DocOf(f, EmptyPatterns, DefaultMetrics, EmptyEffectiveness, EmptyLog))]
    /\ clock = 0
    /\ call = NoCall
    /\ committed = [f \in Files |-> [prior |-> disk[f], next |-> disk[f]]]
    /\ reader = NoRead
    /\ gen = GenIdle
    /\ probe = NoProbe
    /\ loop = NoLoop
    /\ flow = NoFlow

MaxSaves == 2

PersistInputs == { <<  <<Agent("security_specialist", 8)>>,  <<Update("security_specialist")>>  >> }
PersistEvents == {"security", "plain"}

NextPersist ==
    \/ __init__
    \/ /\ clock < MaxSaves
       /\ \E event \in PersistEvents, input \in PersistInputs :
            learn_from_event_body(event, input[1], "success", input[2])
    \/ save_open
    \/ save_dump
    \/ \E event \in PersistEvents : get_recommended_agents(event)
    \/ Crash
    \/ \E f \in Files : reader_load(f)

SpecPersist == InitPersist /\ [][NextPersist]_vars

\* A store that learns, is dropped between two calls and constructed again on
\* its files, and is read in between.
MaxCycleCalls == 3

NextCycle ==
    \/ /\ clock < MaxCycleCalls
       /\ \E event \in PersistEvents, input \in PersistInputs, outcome \in Outcomes :
            learn_from_event(event, input[1], outcome, input[2])
    \/ Crash
    \/ __init__
    \/ \E event \in PersistEvents : get_recommended_agents(event)
    \/ get_learning_summary
    \/ \E agent_type \in {"security_specialist", "performance_expert"} : get_agent_insights(agent_type)

SpecCycle == InitLearn /\ [][NextCycle]_vars

\* A store that has taken some calls one after the other, then two calls
\* started together in one event loop.
MaxWarmup == 99

LoopArgs ==
    { [NoCall EXCEPT !.event = "security", !.agents = <<Agent("security_specialist", 8)>>,
                     !.outcome = "success", !.updates = <<Update("security_specialist")>>],
      [NoCall EXCEPT !.event = "plain", !.agents = <<Agent("security_specialist", 5), Agent("mvp_strategist", 3)>>,
                     !.outcome = "failure"] }

NextLoop ==
    \/ /\ clock < MaxWarmup
       /\ loop.at = <<"none", "none">>
       /\ learn_from_event("security", <<Agent("security_specialist", 8)>>, OutcomeAt(clock + 1),
                           <<Update("security_specialist")>>)
    \/ \E args1, args2 \in LoopArgs : gather(args1, args2)
    \/ \E i \in 1..2 : task_run(i)

SpecLoop == InitLearn /\ [][NextLoop]_vars

\* Callers that send messages, call coordinate_agents and ask for the status
\* of a context, while the handler of a message may be suspended.
NextFlow ==
    \/ \E message \in FlowMessages : send_message(message)
    \/ _handle_agent_generation_request
    \/ \E context \in FlowContexts : coordinate_agents(context)
    \/ \E context_id \in {flow.active_workflows[i].name : i \in 1..Len(flow.active_workflows)}
                            \cup {<<"g","e","n","e","r","a","l","_","9">>} :
          get_workflow_status(context_id)

SpecFlow == InitLearn /\ [][NextFlow]_vars

\* asyncio resumes a task whose sleep has elapsed: the suspended handler is
\* not left waiting forever.
SpecFlowFair == SpecFlow /\ WF_vars(_handle_agent_generation_request)

(***************************************************************************)
(* Properties of the store                                                 *)
(***************************************************************************)
\* the counters a storage directory holds: what a LearningEngine constructed
\* on it loads
Persisted(d) == [f \in Files |-> Load(f, d[f]).val]

\* no counter of storage d1 is lower in storage d2
NotLower(d1, d2) ==
    LET s1 == Persisted(d1)
        s2 == Persisted(d2)
    IN  /\ \A k \in DOMAIN s1["patterns"] :
              k \in DOMAIN s2["patterns"] /\ s1["patterns"][k] <= s2["patterns"][k]
        /\ s1["success_metrics"].total_events <= s2["success_metrics"].total_events
        /\ s1["success_metrics"].successful_updates <= s2["success_metrics"].successful_updates
        /\ s1["success_metrics"].failed_updates <= s2["success_metrics"].failed_updates
        /\ \A a \in DOMAIN s1["agent_effectiveness"] :
              /\ a \in DOMAIN s2["agent_effectiveness"]
              /\ s1["agent_effectiveness"][a].total_spawned <= s2["agent_effectiveness"][a].total_spawned
              /\ s1["agent_effectiveness"][a].successful_updates
                     <= s2["agent_effectiveness"][a].successful_updates

\* C1: when the process has crashed, each of the four files holds either its
\* complete previously committed content or its complete new content.
\* Violated: _save_all_data opens each file with mode 'w', which empties it
\* before json.dump writes; a crash between the two leaves the empty file.
C1_CrashKeepsCommitted ==
    call.op = "crash" =>
        \A f \in Files : disk[f] \in {committed[f].prior, committed[f].next}

\* C2: what a reader opening a file during the writer's save step sees is the
\* file's committed prior content or its committed new content.
\* Violated: between open(file, 'w') and the end of json.dump the reader sees
\* the emptied file.
C2_ReaderSeesCommitted ==
    reader.during => reader.seen \in {reader.prior, reader.next}

\* C3: no call of the store raises, and after the construction a file that is
\* missing or malformed left its structure at the empty default while a
\* well-formed file's structure holds the file's content.
\* Violated: a file holding the JSON text null is parsed without error and its
\* value None is kept (or, for agent_effectiveness, TypeError leaves the
\* constructor).
C3_MalformedFilesAreDefaults ==
    /\ ~call.raised
    /\ call.op = "init" =>
          \A f \in Files :
             /\ disk[f].kind # "json" => shape[f] = "ok" /\ Memory[f] = LoadDefault(f)
             /\ disk[f].kind = "json" => shape[f] = "ok" /\ Memory[f] = Load(f, disk[f]).val

C20_MetricsCountOutcomes ==
    [][clock' = clock + 1 =>
          LET outcome == call'.outcome
          IN  /\ success_metrics'.total_events = success_metrics.total_events + 1
              /\ success_metrics'.successful_updates
                    = success_metrics.successful_updates + (IF outcome = "success" THEN 1 ELSE 0)
              /\ success_metrics'.failed_updates
                    = success_metrics.failed_updates + (IF outcome = "failure" THEN 1 ELSE 0)
              /\ success_metrics'.total_patterns = success_metrics.total_patterns
              /\ success_metrics'.successful_updates + success_metrics'.failed_updates
                    <= success_metrics'.total_events]_vars

\* a 'partial' call after a 'success' call: two events, one success, no failure
C20_Witness ==
    /\ call.op = "learn" /\ call.outcome = "partial"
    /\ Len(learning_log) = 2 /\ learning_log[1].outcome = "success"
    /\ success_metrics.total_events = 2
    /\ success_metrics.successful_updates = 1
    /\ success_metrics.failed_updates = 0

\* the number of positions at which two six-component keys agree
Agree(key1, key2) == Cardinality({i \in 1..6 : key1[i] = key2[i]})

\* C28: for two six-component pattern keys, a stored pattern passes the
\* similarity threshold of get_recommended_agents iff it agrees with the
\* query key on at least five of the six components; the similarity is
\* symmetric, and the query key itself has similarity 1 and passes.
C28_ThresholdIsFiveOfSix ==
    call.op = "recommend" /\ ~call.raised =>
        LET query == KeyOf[call.event]
        IN  /\ Len(query) = 6
            /\ _calculate_pattern_similarity(query, query) = <<1, 1>>
            /\ PassesThreshold(_calculate_pattern_similarity(query, query))
            /\ \A stored \in DOMAIN patterns :
                 /\ Len(stored) = 6
                 /\ (stored \in DOMAIN SimilarPatterns(query, patterns)) <=> (Agree(query, stored) >= 5)
                 /\ _calculate_pattern_similarity(query, stored)
                      = _calculate_pattern_similarity(stored, query)

\* a query against a store that holds a pattern agreeing on five components
\* (similarity 5/7, kept) and one agreeing on four (similarity 4/8, dropped)
C28_Witness ==
    /\ call.op = "recommend" /\ ~call.raised
    /\ \E kept, dropped \in DOMAIN patterns :
         /\ Agree(KeyOf[call.event], kept) = 5
         /\ _calculate_pattern_similarity(KeyOf[call.event], kept) = <<5, 7>>
         /\ Agree(KeyOf[call.event], dropped) = 4
         /\ _calculate_pattern_similarity(KeyOf[call.event], dropped) = <<1, 2>>
         /\ DOMAIN SimilarPatterns(KeyOf[call.event], patterns) = {kept}

\* the confidences, in tenths, of the specs of one agent_type in a list, added up
RECURSIVE SumConf(_, _)
SumConf(agents, t) ==
    IF agents = << >> THEN 0
    ELSE (IF Head(agents).agent_type = t THEN Head(agents).confidence ELSE 0) + SumConf(Tail(agents), t)

\* C23: from an empty store, every learn_from_event call adds to the record of
\* each agent_type the number of specs of that type it was passed, keeps
\* average_confidence * total_spawned equal to the sum of all confidences of
\* that type passed so far (the arithmetic mean, hence within [0,1]), and adds
\* to successful_updates, once per such spec, the number of the call's updates
\* whose agent field is that type; total_spawned is the number of specs of that
\* type over the whole log.
C23_RunningMeanAndCounts ==
    [][clock' = clock + 1 /\ ~call'.raised =>
          \A t \in DOMAIN agent_effectiveness' \cup {call'.agents[i].agent_type : i \in 1..Len(call'.agents)} :
             LET old == Get(agent_effectiveness, t, DefaultRecord)
                 new == Get(agent_effectiveness', t, DefaultRecord)
                 specs == {i \in 1..Len(call'.agents) : call'.agents[i].agent_type = t}
                 matching == {j \in 1..Len(call'.updates) : call'.updates[j].agent = t}
                 logged == {<<n, i>> \in (1..Len(learning_log')) \X (1..4) :
                               /\ i <= Len(learning_log'[n].agents_spawned)
                               /\ learning_log'[n].agents_spawned[i] = t}
             IN  /\ new.total_spawned = old.total_spawned + Cardinality(specs)
                 /\ new.total_spawned = Cardinality(logged)
                 /\ RatMul(new.average_confidence, <<new.total_spawned, 1>>)
                       = RatAdd(RatMul(old.average_confidence, <<old.total_spawned, 1>>),
                                Rat(SumConf(call'.agents, t), 10))
                 /\ ~RatLess(new.average_confidence, Zero)
                 /\ ~RatLess(<<1, 1>>, new.average_confidence)
                 /\ new.successful_updates
                       = old.successful_updates + Cardinality(specs) * Cardinality(matching)]_vars

\* two calls have passed a security_specialist spec, with confidences 0.8 and
\* 0.5: the record holds 2 specs, the mean 0.65 and the two matching updates of
\* the second call
C23_Witness ==
    /\ clock = 2 /\ call.op = "learn" /\ ~call.raised
    /\ "security_specialist" \in DOMAIN agent_effectiveness
    /\ agent_effectiveness["security_specialist"].total_spawned = 2
    /\ agent_effectiveness["security_specialist"].average_confidence = <<13, 20>>
    /\ agent_effectiveness["security_specialist"].successful_updates = 2
    /\ Len(call.agents) = 4

\* the values of a dict, added up
RECURSIVE SumCounts(_)
SumCounts(p) ==
    IF DOMAIN p = {} THEN 0
    ELSE LET k == CHOOSE k \in DOMAIN p : TRUE
         IN  p[k] + SumCounts([j \in DOMAIN p \ {k} |-> p[j]])

\* C27: starting from an empty store, through learn_from_event calls and
\* reloads of the saved files, the pattern counts of the store add up to
\* total_events, in memory whenever a store object exists and in the files.
C27_PatternCountsSumToTotal ==
    /\ pc.at = "idle" => SumCounts(patterns) = success_metrics.total_events
    /\ SumCounts(Persisted(disk)["patterns"]) = Persisted(disk)["success_metrics"].total_events

\* a store constructed on the files of two calls with different pattern keys,
\* one of them reporting a partial outcome
C27_Witness ==
    /\ call.op = "init" /\ ~call.raised /\ pc.at = "idle"
    /\ success_metrics.total_events = 2
    /\ success_metrics.successful_updates = 1 /\ success_metrics.failed_updates = 0
    /\ Cardinality(DOMAIN patterns) = 2
    /\ SumCounts(patterns) = 2

\* C30: a call of get_recommended_agents, get_learning_summary or
\* get_agent_insights leaves the pattern counts, the metrics, the effectiveness
\* records (their keys included), the log and the files as they were.
C30_ReadsDoNotMutate ==
    [][call'.op \in {"recommend", "summary", "insights"} =>
          /\ patterns' = patterns
          /\ success_metrics' = success_metrics
          /\ agent_effectiveness' = agent_effectiveness
          /\ DOMAIN agent_effectiveness' = DOMAIN agent_effectiveness
          /\ learning_log' = learning_log
          /\ disk' = disk]_vars

\* get_agent_insights was asked about an agent_type the store has no record
\* of, while it has records of others: it answered with the error entry
C30_Witness ==
    /\ call.op = "insights" /\ call.event = "performance_expert"
    /\ call.result = << <<"error", "performance_expert">> >>
    /\ agent_effectiveness # EmptyEffectiveness
    /\ "performance_expert" \notin DOMAIN agent_effectiveness
    /\ Len(learning_log) >= 1

\* the memory one learn_from_event call with arguments a, made at time
\* timestamp, leaves when it runs alone on memory mem
LearnOn(mem, a, timestamp) ==
    [patterns |-> BumpPattern(mem.patterns, KeyOf[a.event]),
     success_metrics |-> BumpMetrics(mem.success_metrics, a.outcome),
     agent_effectiveness |-> UpdateAgents(mem.agent_effectiveness, a.agents, a.updates, timestamp),
     learning_log |-> AppendTrim(mem.learning_log,
                         LearningEvent(a.event, KeyOf[a.event], a.agents, a.outcome, a.updates, timestamp))]

\* the memory after the first k tasks of loop.order ran one after the other
RECURSIVE SerialRun(_)
SerialRun(k) ==
    IF k = 0 THEN loop.start.mem
    ELSE LearnOn(SerialRun(k - 1), loop.args[loop.order[k]], loop.start.clock + k)

C21_CoordinateSucceedsOrFailsClean ==
    [][Len(flow'.coordinated) = Len(flow.coordinated) + 1 =>
          LET r == flow'.result
          IN  \/ /\ r.success
                 /\ r.error_message = ""
                 /\ r.workflow_id # << >>
                 /\ \E i \in 1..Len(r.agents_generated) : r.agents_generated[i] = "documentation_agent"
                 /\ \A i, j \in 1..Len(r.agents_generated) :
                        i # j => r.agents_generated[i] # r.agents_generated[j]
                 /\ Len(r.documentation_updates) >= 1
                 /\ \E i \in 1..Len(r.learning_events) : r.learning_events[i] = "pattern_recognized"
                 /\ flow'.active_workflows # << >>
              \/ /\ ~r.success
                 /\ r.error_message # ""
                 /\ r.agents_generated = << >>
                 /\ r.documentation_updates = << >>
                 /\ r.learning_events = << >>
                 /\ flow'.active_workflows = flow.active_workflows]_vars

\* a call that failed in ', '.join after its workflow had been created, on a
\* manager that holds the active workflow of an earlier successful call
C21_Witness ==
    /\ Len(flow.coordinated) = 2
    /\ flow.coordinated[1].focus_area = <<"S","e","c","u","r","i","t","y">>
    /\ ~flow.result.success /\ flow.result.error_message = "TypeError"
    /\ Len(flow.workflows) = 2
    /\ Len(flow.active_workflows) = 1

\* C24: get_workflow_status, asked about a context id that coordinate_agents
\* stored in active_workflows, answers with the information of the workflow
\* whose id is stored for that context, not with None.
C24_StatusOfStoredContext ==
    (/\ flow.status.asked
     /\ \E i \in 1..Len(flow.active_workflows) : flow.active_workflows[i].name = flow.status.context_id)
    => /\ flow.status.info.found
       /\ \E i \in 1..Len(flow.active_workflows), j \in 1..Len(flow.workflows) :
             /\ flow.active_workflows[i].name = flow.status.context_id
             /\ flow.workflows[j].workflow_id = flow.active_workflows[i].workflow_id
             /\ flow.status.info.name = flow.workflows[j].name

\* the accepted messages whose handling by _handle_agent_generation_request
\* is over: requests from senders other than workflow_manager
HandledRequests ==
    {n \in 1..Len(flow.accepted) :
        /\ flow.accepted[n].message_type = "agent_generation"
        /\ flow.accepted[n].sender_id # "workflow_manager"
        /\ \E k \in 1..Len(flow.delivered) : flow.delivered[k] = <<n, "_handle_agent_generation_request">>
        /\ flow.suspended.n # n}

Passes(n, handler) == {k \in 1..Len(flow.delivered) : flow.delivered[k] = <<n, handler>>}

\* message n has left the queue and has been passed once to each handler
\* registered for its type
Processed(n) ==
    /\ n \in 1..Len(flow.accepted)
    /\ \A q \in 1..Len(flow.message_queue) : flow.message_queue[q].n # n
    /\ LET registered == Get(handlers, flow.accepted[n].message_type, << >>)
       IN  \A h \in 1..Len(registered) : Cardinality(Passes(n, registered[h])) = 1

C7_LearnCountsOnce ==
    [][clock' = clock + 1 =>
          LET pattern_key == KeyOf[call'.event]
          IN  /\ Get(patterns', pattern_key, 0) = Get(patterns, pattern_key, 0) + 1
              /\ Get(Persisted(disk')["patterns"], pattern_key, 0)
                    = Get(Persisted(disk)["patterns"], pattern_key, 0) + 1
              /\ NotLower(disk, disk')]_vars

\* two calls with identical event, specs and outcome: the count is 2
C7_Witness ==
    /\ call.op = "learn" /\ clock = 2 /\ Len(learning_log) = 2
    /\ learning_log[1].pattern_key = learning_log[2].pattern_key
    /\ learning_log[1].agents_spawned = learning_log[2].agents_spawned
    /\ learning_log[1].outcome = learning_log[2].outcome
    /\ patterns[learning_log[2].pattern_key] = 2
    /\ Persisted(disk)["patterns"][learning_log[2].pattern_key] = 2

\* the number of calls 1..n that reported outcome o
RECURSIVE Reported(_, _)
Reported(n, o) == IF n = 0 THEN 0 ELSE Reported(n - 1, o) + (IF OutcomeAt(n) = o THEN 1 ELSE 0)

\* C8: after n calls on an empty store the log holds min(n, 100) entries, the
\* most recent calls in call order, and the aggregates count all n calls.
C8_LogKeepsLast100 ==
    /\ Len(learning_log) = (IF clock < 100 THEN clock ELSE 100)
    /\ \A i \in 1..Len(learning_log) :
          /\ learning_log[i].timestamp = clock - Len(learning_log) + i
          /\ learning_log[i].outcome = OutcomeAt(clock - Len(learning_log) + i)
    /\ Get(patterns, KeyOf["security"], 0) = clock
    /\ success_metrics.total_events = clock
    /\ success_metrics.successful_updates = Reported(clock, "success")
    /\ success_metrics.failed_updates = Reported(clock, "failure")
    /\ Get(agent_effectiveness, "security_specialist", DefaultRecord).total_spawned = clock
    /\ Get(agent_effectiveness, "security_specialist", DefaultRecord).successful_updates = clock

\* entries have been dropped
C8_Witness ==
    /\ clock > 100
    /\ Len(learning_log) = 100
    /\ learning_log[1].timestamp = clock - 99
    /\ patterns[KeyOf["security"]] = clock

\* the agent_types of the entries of a log, entry by entry
RECURSIVE Spawned(_)
Spawned(log) == IF log = << >> THEN << >> ELSE Head(log).agents_spawned \o Spawned(Tail(log))

\* the position at which t first appears in seq, 0 when it does not
FirstIndex(seq, t) ==
    IF \E i \in 1..Len(seq) : seq[i] = t
    THEN CHOOSE i \in 1..Len(seq) : seq[i] = t /\ \A j \in 1..(i - 1) : seq[j] # t
    ELSE 0

\* r is a ranking of at most 3 distinct types of sc, non-increasing in score,
\* equal scores in the order of first appearance in seen, nothing left out
\* scoring strictly higher, no zero score above a positive one
Ranked(r, sc, seen) ==
    /\ Len(r) <= 3
    /\ \A i \in 1..Len(r) : r[i] \in DOMAIN sc
    /\ \A i, j \in 1..Len(r) :
          i < j => /\ r[i] # r[j]
                   /\ ~RatLess(sc[r[i]], sc[r[j]])
                   /\ sc[r[i]] = sc[r[j]] => FirstIndex(seen, r[i]) < FirstIndex(seen, r[j])
                   /\ ~(sc[r[i]] = Zero /\ RatLess(Zero, sc[r[j]]))
    /\ \A t \in DOMAIN sc : \A i \in 1..Len(r) :
          (\A j \in 1..Len(r) : r[j] # t) => ~RatLess(sc[r[i]], sc[t])

\* C9 as stated: equal scores are ordered by first appearance in the learning
\* log.
C9_TiesByLogOrder ==
    (call.op = "recommend" /\ ~call.raised) =>
        Ranked(call.result, call.scores, Spawned(learning_log))

\* the log entries line 241 lets through: those whose pattern passes line 233
Scanned(log, pattern_key) ==
    SelectSeq(log, LAMBDA e :
        PassesThreshold(_calculate_pattern_similarity(pattern_key, e.pattern_key)))

\* C9: at most 3 distinct agent_types, non-increasing in score, equal scores
\* ordered by first appearance among the log entries whose pattern key passes
\* the similarity threshold for the query; nothing left out scores strictly
\* higher and no zero score is ranked above a positive one.
C9_TiesByScanOrder ==
    (call.op = "recommend" /\ ~call.raised) =>
        Ranked(call.result, call.scores, Spawned(Scanned(learning_log, KeyOf[call.event])))

\* a ranking of 3 out of 4 scored types with a tie below a strictly higher score
C9_Witness ==
    /\ call.op = "recommend"
    /\ Len(call.result) = 3
    /\ Cardinality(DOMAIN call.scores) = 4
    /\ RatLess(call.scores[call.result[2]], call.scores[call.result[1]])
    /\ call.scores[call.result[2]] = call.scores[call.result[3]]

\* |A & B| / |A | B| > 0.5 for the component sets of two pattern keys
JaccardOver(query, stored) ==
    LET A == {query[i] : i \in 1..Len(query)}
        B == {stored[i] : i \in 1..Len(stored)}
    IN  2 * Cardinality(A \cap B) > Cardinality(A \cup B)

\* similarity * occurrence_count * outcome weight of one log entry, as
\* numerator and denominator
Term(query, entry, p) ==
    LET A == {query[i] : i \in 1..Len(query)}
        B == {entry.pattern_key[i] : i \in 1..Len(entry.pattern_key)}
        twice == CASE entry.outcome = "success" -> 2 [] entry.outcome = "partial" -> 1 [] OTHER -> 0
    IN  <<Cardinality(A \cap B) * p[entry.pattern_key] * twice, 2 * Cardinality(A \cup B)>>

\* the sum of the terms of the entries 1..n of log that spawned t and pass
RECURSIVE ScoreSum(_, _, _, _, _)
ScoreSum(t, query, log, p, n) ==
    IF n = 0 THEN <<0, 1>>
    ELSE LET rest == ScoreSum(t, query, log, p, n - 1)
             term == Term(query, log[n], p)
         IN  IF (\E i \in 1..Len(log[n].agents_spawned) : log[n].agents_spawned[i] = t)
                /\ JaccardOver(query, log[n].pattern_key)
             THEN <<rest[1] * term[2] + term[1] * rest[2], rest[2] * term[2]>>
             ELSE rest

\* C10: the score of an agent_type is the sum over the retained log entries
\* that spawned it and whose pattern has Jaccard similarity > 0.5 with the
\* query of similarity * occurrence_count * outcome weight; a type no such
\* entry spawned has no score; with no stored pattern over 0.5 the result is
\* the empty sequence.
C10_ScoreFormula ==
    (call.op = "recommend" /\ ~call.raised) =>
        LET query == KeyOf[call.event]
            n == Len(learning_log)
        IN  /\ \A t \in DOMAIN call.scores :
                  LET s == ScoreSum(t, query, learning_log, patterns, n)
                  IN  s[1] * call.scores[t][2] = call.scores[t][1] * s[2]
            /\ \A i \in 1..n :
                  JaccardOver(query, learning_log[i].pattern_key) =>
                      \A j \in 1..Len(learning_log[i].agents_spawned) :
                          learning_log[i].agents_spawned[j] \in DOMAIN call.scores
            /\ (\A k \in DOMAIN patterns : ~JaccardOver(query, k)) => call.result = << >>

\* a score built from a similarity below 1 and a partial outcome: 5/7 * 1 * 0.5
C10_Witness ==
    /\ call.op = "recommend"
    /\ \E t \in DOMAIN call.scores : call.scores[t] = <<5, 14>>

(***************************************************************************)
(* ContextAnalyzer (agents/context_analyzer.py)                            *)
(***************************************************************************)
\* lines 25-51: security_keywords, mvp_keywords, performance_keywords and
\* documentation_keywords
keywords ==
    [ security |->
          { <<"a","u","t","h">>,
            <<"p","a","s","s","w","o","r","d">>,
            <<"t","o","k","e","n">>,
            <<"s","e","c","u","r","i","t","y">>,
            <<"e","n","c","r","y","p","t">>,
            <<"d","e","c","r","y","p","t">>,
            <<"p","e","r","m","i","s","s","i","o","n">>,
            <<"l","o","g","i","n">>,
            <<"s","e","s","s","i","o","n">>,
            <<"j","w","t">>,
            <<"o","a","u","t","h">>,
            <<"s","s","l">>,
            <<"t","l","s">>,
            <<"c","o","r","s">>,
            <<"c","s","r","f">>,
            <<"x","s","s">>,
            <<"s","q","l">>,
            <<"i","n","j","e","c","t","i","o","n">>,
            <<"h","a","s","h">>,
            <<"s","a","l","t">>,
            <<"p","r","i","v","a","t","e">>,
            <<"s","e","c","r","e","t">>,
            <<"k","e","y">>,
            <<"c","e","r","t","i","f","i","c","a","t","e">>,
            <<"s","i","g","n","a","t","u","r","e">> },
      mvp |->
          { <<"m","v","p">>,
            <<"p","r","o","t","o","t","y","p","e">>,
            <<"q","u","i","c","k">>,
            <<"r","a","p","i","d">>,
            <<"h","a","c","k","a","t","h","o","n">>,
            <<"d","e","m","o">>,
            <<"p","o","c">>,
            <<"p","r","o","o","f"," ","o","f"," ","c","o","n","c","e","p","t">>,
            <<"m","i","n","i","m","a","l">>,
            <<"b","a","s","i","c">>,
            <<"s","i","m","p","l","e">>,
            <<"t","e","m","p","o","r","a","r","y">>,
            <<"p","l","a","c","e","h","o","l","d","e","r">>,
            <<"m","o","c","k">>,
            <<"s","t","u","b">> },
      performance |->
          { <<"o","p","t","i","m","i","z","e">>,
            <<"p","e","r","f","o","r","m","a","n","c","e">>,
            <<"s","p","e","e","d">>,
            <<"c","a","c","h","e">>,
            <<"a","s","y","n","c">>,
            <<"a","w","a","i","t">>,
            <<"s","l","o","w">>,
            <<"l","a","t","e","n","c","y">>,
            <<"b","o","t","t","l","e","n","e","c","k">>,
            <<"e","f","f","i","c","i","e","n","c","y">>,
            <<"m","e","m","o","r","y">>,
            <<"c","p","u">>,
            <<"l","o","a","d">>,
            <<"s","c","a","l","e">>,
            <<"c","o","n","c","u","r","r","e","n","t">>,
            <<"p","a","r","a","l","l","e","l">>,
            <<"t","h","r","e","a","d">>,
            <<"q","u","e","u","e">>,
            <<"b","u","f","f","e","r">>,
            <<"p","o","o","l">>,
            <<"c","o","n","n","e","c","t","i","o","n">> },
      documentation |->
          { <<"r","e","a","d","m","e">>,
            <<"d","o","c","s">>,
            <<"d","o","c","u","m","e","n","t","a","t","i","o","n">>,
            <<"g","u","i","d","e">>,
            <<"t","u","t","o","r","i","a","l">>,
            <<"a","p","i">>,
            <<"s","p","e","c">>,
            <<"s","c","h","e","m","a">>,
            <<"c","o","m","m","e","n","t">>,
            <<"e","x","p","l","a","i","n">>,
            <<"d","e","s","c","r","i","b","e">> } ]

\* file_patterns, lines 60-68.  re.search(r'.*auth.*', text) on a text with
\* no newline succeeds exactly when the text contains 'auth': each pattern is
\* kept as the word between its two '.*'.
file_patterns ==
    [ security |->
        { <<"a","u","t","h">>, <<"s","e","c","u","r","i","t","y">>, <<"l","o","g","i","n">>,
          <<"j","w","t">>, <<"m","i","d","d","l","e","w","a","r","e">>, <<"g","u","a","r","d">>,
          <<"p","e","r","m","i","s","s","i","o","n">> },
      performance |->
        { <<"o","p","t","i","m","i","z","e">>, <<"c","a","c","h","e">>, <<"a","s","y","n","c">>,
          <<"q","u","e","u","e">>, <<"p","o","o","l">>, <<"c","o","n","n","e","c","t","i","o","n">>,
          <<"d","a","t","a","b","a","s","e">> } ]

\* line 162
doc_extensions == {Ext.md, Ext.rst, Ext.txt, <<".","d","o","c">>, <<".","d","o","c","x">>}

\* ' '.join(files).lower()
FilesText(files) == Lower(Join(files, <<" ">>))

\* files_text + ' ' + message.lower()
TextToCheck(files, message) == FilesText(files) \o <<" ">> \o Lower(message)

_check_security_context(files, message) ==
    LET files_text == FilesText(files)
        text_to_check == TextToCheck(files, message)
    IN  \/ \E pattern \in file_patterns.security : Contains(files_text, pattern)
        \/ \E keyword \in keywords.security : Contains(text_to_check, keyword)

_check_mvp_context(message) ==
    LET message_lower == Lower(message)
    IN  \E keyword \in keywords.mvp : Contains(message_lower, keyword)

_check_performance_context(files, message) ==
    LET files_text == FilesText(files)
        text_to_check == TextToCheck(files, message)
    IN  \/ \E pattern \in file_patterns.performance : Contains(files_text, pattern)
        \/ \E keyword \in keywords.performance : Contains(text_to_check, keyword)

_check_documentation_context(files, message) ==
    LET text_to_check == TextToCheck(files, message)
    IN  \/ \E i \in 1..Len(files) : EndsWithAny(files[i], doc_extensions)
        \/ \E keyword \in keywords.documentation : Contains(text_to_check, keyword)

\* mutant of FileType: without the else branch of line 201
FileType_no_else(file_path) ==
    LET file_lower == Lower(file_path)
    IN  IF EndsWithAny(file_lower, {Ext.py, <<".","p","y","i">>}) THEN "python"
        ELSE IF EndsWithAny(file_lower, {Ext.js, Ext.jsx}) THEN "javascript"
        ELSE IF EndsWithAny(file_lower, {Ext.ts, Ext.tsx}) THEN "typescript"
        ELSE IF EndsWithAny(file_lower, {Ext.html, <<".","h","t","m">>}) THEN "html"
        ELSE IF EndsWithAny(file_lower, {Ext.css, <<".","s","c","s","s">>, <<".","s","a","s","s">>}) THEN "css"
        ELSE IF EndsWithAny(file_lower, {Ext.md, Ext.rst, Ext.txt}) THEN "markdown"
        ELSE IF EndsWithAny(file_lower, {<<".","j","s","o","n">>, <<".","y","a","m","l">>, <<".","y","m","l">>,
                                         <<".","t","o","m","l">>, <<".","i","n","i">>, <<".","c","f","g">>}) THEN "config"
        ELSE ""

\* lines 184-202: the type one path is counted under
FileType(file_path) ==
    LET file_lower == Lower(file_path)
    IN  IF EndsWithAny(file_lower, {Ext.py, <<".","p","y","i">>}) THEN "python"
        ELSE IF EndsWithAny(file_lower, {Ext.js, Ext.jsx}) THEN "javascript"
        ELSE IF EndsWithAny(file_lower, {Ext.ts, Ext.tsx}) THEN "typescript"
        ELSE IF EndsWithAny(file_lower, {Ext.html, <<".","h","t","m">>}) THEN "html"
        ELSE IF EndsWithAny(file_lower, {Ext.css, <<".","s","c","s","s">>, <<".","s","a","s","s">>}) THEN "css"
        ELSE IF EndsWithAny(file_lower, {Ext.md, Ext.rst, Ext.txt}) THEN "markdown"
        ELSE IF EndsWithAny(file_lower, {<<".","j","s","o","n">>, <<".","y","a","m","l">>, <<".","y","m","l">>,
                                         <<".","t","o","m","l">>, <<".","i","n","i">>, <<".","c","f","g">>}) THEN "config"
        ELSE "other"

FileTypeNames == {"python", "javascript", "typescript", "html", "css", "markdown", "config", "other"}

_analyze_file_types(files) ==
    [t \in FileTypeNames |-> Cardinality({i \in 1..Len(files) : FileType(files[i]) = t})]

\* len(message.split()) for a message whose only whitespace is the space
WordCount(message) ==
    Cardinality({i \in 1..Len(message) : message[i] # " " /\ (i = 1 \/ message[i - 1] = " ")})

\* lines 209-230; the score is a multiple of 0.5, int() drops the half
_calculate_complexity(files, message) ==
    LET file_types == _analyze_file_types(files)
        unique_types == Cardinality({t \in FileTypeNames : file_types[t] > 0})
        twice == 4 * Len(files) + WordCount(message) + 6 * unique_types
                 + (IF _check_security_context(files, message) THEN 10 ELSE 0)
                 + (IF _check_performance_context(files, message) THEN 6 ELSE 0)
    IN  twice \div 2

Min(a, b) == IF a < b THEN a ELSE b

\* A confidence is a float.  Every float the analyzer and the rules compute
\* is the double nearest to a multiple of 0.1, or the double just above or
\* just below it; it is kept as 4 * (the multiple) + 1, + 0 or - 1, so that
\* the order of these integers is the order of the floats.
Tenth == 4

\* k * 0.1, k * 0.2 and k * 0.3 (tenths = 1, 2, 3).  3 * 0.1 =
\* 0.30000000000000004, 6 * 0.1 = 3 * 0.2 = 0.6000000000000001, 7 * 0.1 =
\* 0.7000000000000001 and 3 * 0.3 = 0.8999999999999999; the other products
\* up to 1.0 are the literals; above 1.0 only the order against 1.0 is used.
Times(k, tenths) ==
    k * tenths * Tenth
    + (IF <<k, tenths>> \in {<<3, 1>>, <<6, 1>>, <<7, 1>>, <<3, 2>>} THEN 1 ELSE 0)
    - (IF <<k, tenths>> = <<3, 3>> THEN 1 ELSE 0)

\* a + b of two such floats: 0.4 + 0.2 = 0.6000000000000001, the other sums
\* up to 1.0 that the analyzer forms are exact
FloatSum(a, b) == a + b + (IF {a, b} = {4 * Tenth, 2 * Tenth} THEN 1 ELSE 0)

\* confidence += 0.4, n times from 0.0
RECURSIVE PatternSum(_)
PatternSum(n) == IF n = 0 THEN 0 ELSE FloatSum(PatternSum(n - 1), 4 * Tenth)

\* lines 235-249: 0.4 per matching pattern, min(matches * 0.1, 0.6),
\* min(confidence, 1.0)
_calculate_security_confidence(files, message) ==
    LET files_text == FilesText(files)
        text_to_check == TextToCheck(files, message)
        matched == Cardinality({p \in file_patterns.security : Contains(files_text, p)})
        keyword_matches == Cardinality({k \in keywords.security : Contains(text_to_check, k)})
    IN  Min(FloatSum(PatternSum(matched), Min(Times(keyword_matches, 1), 6 * Tenth)), 10 * Tenth)

\* lines 254-258
_calculate_mvp_confidence(message) ==
    LET message_lower == Lower(message)
        keyword_matches == Cardinality({k \in keywords.mvp : Contains(message_lower, k)})
    IN  Min(Times(keyword_matches, 3), 10 * Tenth)

\* lines 263-277
_calculate_performance_confidence(files, message) ==
    LET files_text == FilesText(files)
        text_to_check == TextToCheck(files, message)
        matched == Cardinality({p \in file_patterns.performance : Contains(files_text, p)})
        keyword_matches == Cardinality({k \in keywords.performance : Contains(text_to_check, k)})
    IN  Min(FloatSum(PatternSum(matched), Min(Times(keyword_matches, 1), 6 * Tenth)), 10 * Tenth)

\* lines 94-122
analyze_event(event_data) ==
    LET files_changed == event_data.files
        commit_message == event_data.message
        errors == event_data.errors
    IN  [security_focus |-> _check_security_context(files_changed, commit_message),
         mvp_focus |-> _check_mvp_context(commit_message),
         performance_focus |-> _check_performance_context(files_changed, commit_message),
         documentation_focus |-> _check_documentation_context(files_changed, commit_message),
         error_focus |-> Len(errors) > 0,
         files_changed |-> files_changed,
         commit_message |-> commit_message,
         error_count |-> Len(errors),
         file_types |-> _analyze_file_types(files_changed),
         complexity_score |-> _calculate_complexity(files_changed, commit_message),
         confidence |-> [security |-> _calculate_security_confidence(files_changed, commit_message),
                         mvp |-> _calculate_mvp_confidence(commit_message),
                         performance |-> _calculate_performance_confidence(files_changed, commit_message)]]

\* the context of each named event, computed once
ContextOf ==
    [ security |-> analyze_event(EventData.security),
      mvp      |-> analyze_event(EventData.mvp),
      error    |-> analyze_event(EventData.error),
      plain    |-> analyze_event(EventData.plain),
      perf     |-> analyze_event(EventData.perf),
      docs     |-> analyze_event(EventData.docs),
      weak     |-> analyze_event(EventData.weak),
      tie      |-> analyze_event(EventData.tie),
      corner   |-> analyze_event(EventData.corner),
      empty    |-> analyze_event(EventData.empty) ]

(***************************************************************************)
(* DynamicAgentGenerator (agents/agent_generator.py): the deterministic    *)
(* rules.  A spec carries the fields the rules decide and its agent_id;    *)
(* created_at and context_reason are left out.                             *)
(***************************************************************************)

\* lines 51-133
agent_templates ==
    [ security_specialist |->
        [base_priority |-> 1, focus_area |-> "security",
         documentation_targets |-> <<".cursor/rules/security_rules.md",
                                     ".cursor/commands/security_commands.md",
                                     ".cursor/development/patterns/auth_patterns.md",
                                     ".cursor/development/debugging/security_debugging.md">>,
         tags |-> <<"security", "auth", "permissions">>, estimated_duration |-> "15-30 min"],
      mvp_strategist |->
        [base_priority |-> 2, focus_area |-> "mvp",
         documentation_targets |-> <<".cursor/rules/mvp_guidelines.md",
                                     ".cursor/commands/rapid_prototyping.md",
                                     ".cursor/development/patterns/mvp_patterns.md",
                                     ".cursor/plans/mvp_tracking.md">>,
         tags |-> <<"mvp", "prototype", "rapid">>, estimated_duration |-> "10-20 min"],
      performance_expert |->
        [base_priority |-> 2, focus_area |-> "performance",
         documentation_targets |-> <<".cursor/rules/performance_rules.md",
                                     ".cursor/commands/optimization_commands.md",
                                     ".cursor/development/patterns/performance_patterns.md",
                                     ".cursor/development/debugging/performance_debugging.md">>,
         tags |-> <<"performance", "optimization", "caching">>, estimated_duration |-> "20-40 min"],
      documentation_specialist |->
        [base_priority |-> 3, focus_area |-> "documentation",
         documentation_targets |-> <<".cursor/README.md",
                                     ".cursor/development/debugging/",
                                     ".cursor/plans/",
                                     ".cursor/commands/">>,
         tags |-> <<"documentation", "docs", "guides">>, estimated_duration |-> "5-15 min"],
      error_handler |->
        [base_priority |-> 1, focus_area |-> "debugging",
         documentation_targets |-> <<".cursor/development/debugging/",
                                     ".cursor/commands/debugging_commands.md",
                                     ".cursor/rules/error_handling_rules.md">>,
         tags |-> <<"debugging", "errors", "fixes">>, estimated_duration |-> "10-25 min"],
      api_specialist |->
        [base_priority |-> 2, focus_area |-> "api",
         documentation_targets |-> <<".cursor/rules/api_rules.md",
                                     ".cursor/commands/api_commands.md",
                                     ".cursor/development/patterns/api_patterns.md">>,
         tags |-> <<"api", "endpoints", "rest">>, estimated_duration |-> "15-30 min"],
      frontend_specialist |->
        [base_priority |-> 2, focus_area |-> "frontend",
         documentation_targets |-> <<".cursor/rules/frontend_rules.md",
                                     ".cursor/commands/frontend_commands.md",
                                     ".cursor/development/patterns/ui_patterns.md">>,
         tags |-> <<"frontend", "ui", "components">>, estimated_duration |-> "15-25 min"] ]

\* lines 256-275
_calculate_agent_confidence(agent_type, context) ==
    CASE agent_type = "security_specialist" -> context.confidence.security
      [] agent_type = "mvp_strategist" -> context.confidence.mvp
      [] agent_type = "performance_expert" -> context.confidence.performance
      [] agent_type = "documentation_specialist" -> IF context.documentation_focus THEN 10 * Tenth ELSE 0
      [] agent_type = "error_handler" -> Min(Times(context.error_count, 2), 10 * Tenth)
      [] agent_type = "api_specialist" -> Min(Times(context.file_types["python"], 1), 10 * Tenth)
      [] agent_type = "frontend_specialist" ->
            Min(Times(context.file_types["javascript"] + context.file_types["typescript"], 2),
                10 * Tenth)
      [] OTHER -> 5 * Tenth

\* lines 280-297
_determine_dependencies(agent_type, context) ==
    (IF agent_type = "security_specialist" THEN <<"documentation_specialist">> ELSE << >>)
    \o (IF agent_type = "performance_expert" THEN <<"error_handler">> ELSE << >>)
    \o (IF agent_type = "api_specialist" /\ context.security_focus THEN <<"security_specialist">> ELSE << >>)
    \o (IF agent_type = "api_specialist" /\ context.performance_focus THEN <<"performance_expert">> ELSE << >>)

\* uuid.uuid4().hex[:8]: eight hexadecimal digits out of a random 128-bit
\* number.  Nothing makes two calls return different digits.
Hex == <<"1b9d6bcd", "6ec0bd7f">>

\* What the successive calls of uuid4 during one generate_agents call may
\* return: the same digits every time, or different digits from call to call.
UuidStreams ==
    { <<Hex[1], Hex[1], Hex[1], Hex[1], Hex[1], Hex[1], Hex[1], Hex[1], Hex[1], Hex[1]>>,
      <<Hex[1], Hex[2], Hex[1], Hex[2], Hex[1], Hex[2], Hex[1], Hex[2], Hex[1], Hex[2]>> }

\* the stream after n calls
Drawn(uuid4, n) == SubSeq(uuid4, n + 1, Len(uuid4))

\* lines 228-251; uuid is the value of uuid.uuid4().hex[:8] at line 234
_create_agent(agent_type, context, uuid) ==
    LET template == agent_templates[agent_type]
    IN  [agent_id |-> agent_type \o "_" \o uuid,
         agent_type |-> agent_type,
         focus_area |-> template.focus_area,
         documentation_targets |-> template.documentation_targets,
         priority |-> template.base_priority,
         confidence |-> _calculate_agent_confidence(agent_type, context),
         estimated_duration |-> template.estimated_duration,
         tags |-> template.tags,
         dependencies |-> _determine_dependencies(agent_type, context)]

\* key=lambda x: (x.priority, -x.confidence): a sorts strictly before b
KeyLess(a, b) ==
    \/ a.priority < b.priority
    \/ a.priority = b.priority /\ a.confidence > b.confidence

\* mutant of SortAgents: the list as it was built
SortAgents_as_built(agents) == agents

\* list.sort / sorted with that key: stable.  The element at index i of the
\* list goes after every element with a smaller key and after every earlier
\* element with an equal key.
SortAgents(agents) ==
    LET n == Len(agents)
        before(i) == {j \in 1..n : \/ KeyLess(agents[j], agents[i])
                                   \/ (~KeyLess(agents[i], agents[j]) /\ j < i)}
    IN  [p \in 1..n |-> agents[CHOOSE i \in 1..n : Cardinality(before(i)) = p - 1]]

\* mutant of Over03: confidence > 0.5
Over03_half(confidence) == confidence > 5 * Tenth

\* lines 152 and 174: confidence > 0.3.  3 * 0.1 is 0.30000000000000004 and
\* exceeds 0.3.
Over03(confidence) == confidence > 3 * Tenth

\* mutant of Over02: the threshold of the security rule, confidence > 0.3
Over02_as_03(confidence) == confidence > 3 * Tenth

\* line 163: confidence > 0.2
Over02(confidence) == confidence > 2 * Tenth

\* lines 149-218: the rules in the order of the code, each with the
\* agent_type it appends and its condition
Rules(context_analysis) ==
    LET file_types == context_analysis.file_types
        frontend_files == file_types["javascript"] + file_types["typescript"]
                          + file_types["html"] + file_types["css"]
    IN  << <<"security_specialist",
             context_analysis.security_focus /\ Over03(context_analysis.confidence.security)>>,
           <<"mvp_strategist", context_analysis.mvp_focus /\ Over02(context_analysis.confidence.mvp)>>,
           <<"performance_expert",
             context_analysis.performance_focus /\ Over03(context_analysis.confidence.performance)>>,
           <<"documentation_specialist", context_analysis.documentation_focus>>,
           <<"error_handler", context_analysis.error_focus>>,
           <<"api_specialist", file_types["python"] > 0
                    /\ Contains(FilesText(context_analysis.files_changed), <<"a","p","i">>)>>,
           <<"frontend_specialist", frontend_files > 0>> >>

\* lines 146-218: the list `agents` before it is sorted; the i-th agent
\* created gets the i-th value of uuid4
Appended(context_analysis, uuid4) ==
    LET fired == SelectSeq(Rules(context_analysis), LAMBDA rule : rule[2])
    IN  [i \in 1..Len(fired) |-> _create_agent(fired[i][1], context_analysis, uuid4[i])]

\* DynamicAgentGenerator.generate_agents, lines 146-223
DynamicAgentGenerator_generate_agents(context_analysis, uuid4) ==
    SortAgents(Appended(context_analysis, uuid4))

(***************************************************************************)
(* AIAgentGenerator (agents/dynamic_agent_generator.py)                    *)
(***************************************************************************)
\* lines 196-251: the list `agents` of the keyword fallback before it is
\* sorted; the i-th spec built gets the i-th value of uuid4
FallbackAppended(context, uuid4) ==
    LET security ==
            [agent_type |-> "security_specialist", focus_area |-> "security",
             documentation_targets |-> <<".cursor/rules/security_rules.md",
                                         ".cursor/commands/security_commands.md",
                                         ".cursor/development/patterns/auth_patterns.md">>,
             priority |-> 1, confidence |-> context.confidence.security,
             estimated_duration |-> "15-30 min", tags |-> <<"security", "auth">>,
             dependencies |-> << >>]
        mvp ==
            [agent_type |-> "mvp_strategist", focus_area |-> "mvp",
             documentation_targets |-> <<".cursor/rules/mvp_guidelines.md",
                                         ".cursor/commands/rapid_prototyping.md">>,
             priority |-> 2, confidence |-> context.confidence.mvp,
             estimated_duration |-> "10-20 min", tags |-> <<"mvp", "prototype">>,
             dependencies |-> << >>]
        performance ==
            [agent_type |-> "performance_expert", focus_area |-> "performance",
             documentation_targets |-> <<".cursor/rules/performance_rules.md",
                                         ".cursor/commands/optimization_commands.md">>,
             priority |-> 2, confidence |-> context.confidence.performance,
             estimated_duration |-> "20-40 min", tags |-> <<"performance", "optimization">>,
             dependencies |-> << >>]
        agents == (IF context.security_focus THEN <<security>> ELSE << >>)
                  \o (IF context.mvp_focus THEN <<mvp>> ELSE << >>)
                  \o (IF context.performance_focus THEN <<performance>> ELSE << >>)
    IN  [i \in 1..Len(agents) |->
            [agent_id |-> agents[i].agent_type \o "_" \o uuid4[i],
             agent_type |-> agents[i].agent_type, focus_area |-> agents[i].focus_area,
             documentation_targets |-> agents[i].documentation_targets,
             priority |-> agents[i].priority, confidence |-> agents[i].confidence,
             estimated_duration |-> agents[i].estimated_duration, tags |-> agents[i].tags,
             dependencies |-> agents[i].dependencies]]

\* lines 189-253: the keyword fallback
_generate_fallback(context, uuid4) == SortAgents(FallbackAppended(context, uuid4))

\* The value of self.llm.generate(...) at line 86, which is called without
\* await.  kind:
\*   "coroutine"  self.llm is the LLMConfig of config/llm_config.py, whose
\*                generate is `async def`: the call runs none of its body and
\*                returns a coroutine object at once
\*   "raise"      a collaborator whose generate is an ordinary method raised exc
\*   "not_json"   such a collaborator returned text that is not JSON
\*   "array"      ... the JSON text of a list
\*   "object"     ... the JSON text of an object; has_agents tells whether it
\*                has the key "agents", agents is the value of that key
Response(kind, exc, has_agents, agents) ==
    [kind |-> kind, exc |-> exc, has_agents |-> has_agents, agents |-> agents]

\* the keys lines 103-111 read with agent_data[...]
RequiredFields ==
    {"agent_type", "focus_area", "documentation_targets", "priority", "confidence",
     "context_reason", "estimated_duration"}

\* One element of data["agents"]: the keys it has and their values; the
\* JSON number of its confidence is tenths / 10.
Candidate(agent_type, priority, tenths) ==
    [fields |-> RequiredFields \cup {"tags", "dependencies"},
     agent_type |-> agent_type, focus_area |-> "security",
     documentation_targets |-> <<".cursor/rules/security_rules.md",
                                 ".cursor/commands/security_commands.md">>,
     priority |-> priority, confidence |-> tenths * Tenth,
     estimated_duration |-> "20-30 min", tags |-> <<"security">>, dependencies |-> << >>]

\* the same element without one key
Without(candidate, field) == [candidate EXCEPT !.fields = @ \ {field}]

\* models.py 21-30: AgentSpec(...) validates priority (ge=1, le=3) and
\* confidence (ge=0.0, le=1.0)
Validates(candidate) ==
    /\ candidate.priority >= 1 /\ candidate.priority <= 3
    /\ candidate.confidence >= 0 /\ candidate.confidence <= 10 * Tenth

\* lines 102-114 for one element: the exception it raises, "" when none
CandidateError(candidate) ==
    IF ~(RequiredFields \subseteq candidate.fields) THEN "KeyError"
    ELSE IF ~Validates(candidate) THEN "ValidationError"
    ELSE ""

\* lines 102-114: the AgentSpec built from one element; .get('tags', []) and
\* .get('dependencies', [])
SpecOf(candidate, uuid) ==
    [agent_id |-> candidate.agent_type \o "_" \o uuid,
     agent_type |-> candidate.agent_type,
     focus_area |-> candidate.focus_area,
     documentation_targets |-> candidate.documentation_targets,
     priority |-> candidate.priority,
     confidence |-> candidate.confidence,
     estimated_duration |-> candidate.estimated_duration,
     tags |-> IF "tags" \in candidate.fields THEN candidate.tags ELSE << >>,
     dependencies |-> IF "dependencies" \in candidate.fields THEN candidate.dependencies ELSE << >>]

\* lines 101-114: the list `agents` when every element passes; the i-th
\* AgentSpec built gets the i-th value of uuid4
AiAppended(agents_data, uuid4) ==
    [i \in 1..Len(agents_data) |-> SpecOf(agents_data[i], uuid4[i])]

\* lines 86-126 from the value of the call on: [exc, agents, drawn].  exc is
\* the exception raised inside the try block, "" when line 126 is reached;
\* drawn is the number of uuid4 calls made (line 103 reads
\* agent_data['agent_type'] before it calls uuid4).
TryBlock(response, uuid4) ==
    CASE response.kind = "raise" -> [exc |-> response.exc, agents |-> << >>, drawn |-> 0]
      [] response.kind = "coroutine" ->
            \* json.loads of an object that is not str, bytes or bytearray
            [exc |-> "TypeError", agents |-> << >>, drawn |-> 0]
      [] response.kind = "not_json" -> [exc |-> "JSONDecodeError", agents |-> << >>, drawn |-> 0]
      [] response.kind = "array" ->
            \* data.get: a list has no attribute get
            [exc |-> "AttributeError", agents |-> << >>, drawn |-> 0]
      [] response.kind = "object" ->
            LET agents_data == IF response.has_agents THEN response.agents ELSE << >>
                bad == {i \in 1..Len(agents_data) : CandidateError(agents_data[i]) # ""}
                first == CHOOSE i \in bad : \A j \in bad : i <= j
            IN  IF bad # {}
                THEN [exc |-> CandidateError(agents_data[first]), agents |-> << >>,
                      drawn |-> IF "agent_type" \in agents_data[first].fields THEN first ELSE first - 1]
                ELSE [exc |-> "", agents |-> SortAgents(AiAppended(agents_data, uuid4)),
                      drawn |-> Len(agents_data)]

\* the exception classes that derive from Exception; what a collaborator
\* raises is one of them (llm_config.py 82-84 re-raises what `except
\* Exception` caught)
ExceptionClasses ==
    {"TypeError", "JSONDecodeError", "AttributeError", "KeyError", "ValidationError",
     "APIError", "ConnectionError"}

\* mutant of Caught: the handler names json.JSONDecodeError only
Caught_json_only(exc) == exc = "JSONDecodeError"

\* line 128: except Exception
Caught(exc) == exc \in ExceptionClasses

\* gen after lines 94-137 ran on the value of the call
Returned(g, response, uuid4) ==
    LET t == TryBlock(response, uuid4)
    IN  IF t.exc = ""
        THEN [g EXCEPT !.at = "returned", !.result = t.agents, !.path = "ai", !.uuid4 = uuid4]
        ELSE IF Caught(t.exc)
        THEN [g EXCEPT !.at = "returned", !.path = "fallback", !.uuid4 = Drawn(uuid4, t.drawn),
                       !.result = _generate_fallback(ContextOf[g.event], Drawn(uuid4, t.drawn))]
        ELSE [g EXCEPT !.at = "returned", !.path = "raised", !.raised = TRUE]

\* DynamicAgentGenerator().generate_agents(context)
deterministic_generate_agents(event, uuid4) ==
    /\ gen.at = "idle"
    /\ gen' = [GenIdle EXCEPT !.at = "returned", !.mode = "rules", !.event = event, !.path = "rules",
                              !.uuid4 = uuid4,
                              !.result = DynamicAgentGenerator_generate_agents(ContextOf[event], uuid4)]
    /\ UNCHANGED <<storeVars, probe, loop, flow>>

\* AIAgentGenerator(use_ai=False).generate_agents(context): lines 52-60
fallback_generate_agents(event, uuid4) ==
    /\ gen.at = "idle"
    /\ gen' = [GenIdle EXCEPT !.at = "returned", !.mode = "no_ai", !.event = event, !.path = "fallback",
                              !.uuid4 = uuid4,
                              !.result = _generate_fallback(ContextOf[event], uuid4)]
    /\ UNCHANGED <<storeVars, probe, loop, flow>>

\* AIAgentGenerator(use_ai=True).generate_agents(context) up to the call of
\* line 86.  An `async def` generate returns its coroutine at once; an
\* ordinary generate returns when the collaborator has answered.
_generate_with_ai_call(event, llm) ==
    /\ gen.at = "idle"
    /\ gen' = IF llm = "LLMConfig"
              THEN [GenIdle EXCEPT !.at = "responded", !.mode = "ai", !.event = event, !.llm = llm,
                                   !.response = Response("coroutine", "", FALSE, << >>)]
              ELSE [GenIdle EXCEPT !.at = "waiting", !.mode = "ai", !.event = event, !.llm = llm]
    /\ UNCHANGED <<storeVars, probe, loop, flow>>

\* the collaborator answers: the call of line 86 returns or raises
llm_responds(response) ==
    /\ gen.at = "waiting"
    /\ gen' = [gen EXCEPT !.at = "responded", !.response = response]
    /\ UNCHANGED <<storeVars, probe, loop, flow>>

\* lines 94-137
_generate_with_ai_rest ==
    /\ gen.at = "responded"
    /\ \E uuid4 \in UuidStreams : gen' = Returned(gen, gen.response, uuid4)
    /\ UNCHANGED <<storeVars, probe, loop, flow>>

\* the caller has its value; the generator is ready for the next call
next_call ==
    /\ gen.at = "returned"
    /\ gen' = GenIdle
    /\ UNCHANGED <<storeVars, probe, loop, flow>>

\* what a collaborator with an ordinary generate may answer
Responses ==
    { Response("raise", "APIError", FALSE, << >>),
      Response("raise", "ConnectionError", FALSE, << >>),
      Response("not_json", "", FALSE, << >>),
      Response("array", "", FALSE, << >>),
      Response("object", "", FALSE, << >>),
      Response("object", "", TRUE, << >>),
      Response("object", "", TRUE, <<Candidate("security_specialist", 1, 9)>>),
      Response("object", "", TRUE,
               <<Candidate("documentation_specialist", 3, 5), Candidate("security_specialist", 1, 9),
                 Without(Candidate("api_documentation_expert", 1, 10), "tags")>>),
      Response("object", "", TRUE, <<Candidate("security_specialist", 0, 9)>>),
      Response("object", "", TRUE, <<Candidate("security_specialist", 1, 9), Candidate("mvp_strategist", 4, 5)>>),
      Response("object", "", TRUE, <<Candidate("security_specialist", 1, 0 - 1)>>),
      Response("object", "", TRUE, <<Candidate("security_specialist", 1, 11)>>),
      Response("object", "", TRUE,
               <<Candidate("performance_expert", 2, 5), Candidate("documentation_specialist", 3, 10), Candidate("mvp_strategist", 2, 5),
                 Candidate("performance_expert", 2, 5), Candidate("security_specialist", 1, 3)>>) }
    \cup { Response("object", "", TRUE, <<Candidate("security_specialist", 1, 9), Without(Candidate("mvp_strategist", 2, 5), f)>>) :
             f \in RequiredFields }


NextGen ==
    \/ \E event \in EventNames, uuid4 \in UuidStreams : deterministic_generate_agents(event, uuid4)
    \/ \E event \in EventNames, uuid4 \in UuidStreams : fallback_generate_agents(event, uuid4)
    \/ \E event \in EventNames, llm \in {"LLMConfig", "ordinary"} : _generate_with_ai_call(event, llm)
    \/ \E response \in Responses : llm_responds(response)
    \/ _generate_with_ai_rest
    \/ next_call

SpecGen == InitLearn /\ [][NextGen]_vars

\* The generator's own steps are taken when they can be; nothing makes the
\* collaborator answer.
SpecGenFair ==
    /\ InitLearn
    /\ [][NextGen]_vars
    /\ WF_vars(_generate_with_ai_rest)

(***************************************************************************)
(* Properties of the generators                                            *)
(***************************************************************************)
\* the value of the call is one the claim calls a failure: the call raised,
\* the content does not parse, or an element lacks a required field or has a
\* priority outside {1,2,3} or a confidence outside [0,1]
Failure(response) ==
    \/ response.kind \in {"raise", "coroutine", "not_json"}
    \/ /\ response.kind = "object"
       /\ response.has_agents
       /\ \E i \in 1..Len(response.agents) :
             \/ \E f \in {"agent_type", "focus_area", "documentation_targets", "priority",
                          "confidence", "context_reason", "estimated_duration"} :
                   f \notin response.agents[i].fields
             \/ response.agents[i].priority \notin {1, 2, 3}
             \/ response.agents[i].confidence < 0
             \/ response.agents[i].confidence > 10 * Tenth

\* C4: in adaptive mode, when the call raised, returned unparseable content or
\* returned a candidate with a missing required field, a priority outside
\* {1,2,3} or a confidence outside [0,1], generate_agents returns a list of
\* valid specs and raises nothing.
C4_AdaptiveFailuresAreRecovered ==
    (gen.at = "returned" /\ gen.mode = "ai" /\ Failure(gen.response)) =>
        /\ ~gen.raised
        /\ \A i \in 1..Len(gen.result) :
              /\ gen.result[i].priority \in {1, 2, 3}
              /\ gen.result[i].confidence \in 0..(10 * Tenth)

\* a priority outside {1,2,3} after a valid element, recovered into a
\* non-empty list
C4_Witness ==
    /\ gen.at = "returned" /\ gen.mode = "ai"
    /\ gen.response.kind = "object"
    /\ \E i \in 1..Len(gen.response.agents) : gen.response.agents[i].priority = 4
    /\ ~gen.raised
    /\ gen.result # << >>

\* what the claim compares of a spec list
Compared(agents) ==
    {[agent_type |-> agents[i].agent_type, priority |-> agents[i].priority,
      confidence |-> agents[i].confidence,
      documentation_targets |-> agents[i].documentation_targets] : i \in 1..Len(agents)}

\* C5: when the adaptive path failed, the returned specs are those of the
\* deterministic rules for the same context: the same agent_types with the
\* same priorities, confidences and documentation targets.
\* Violated: _generate_fallback is a separate three-agent keyword generator.
C5_FallbackIsDeterministic ==
    (gen.at = "returned" /\ gen.mode = "ai" /\ gen.path = "fallback") =>
        Compared(gen.result) = Compared(DynamicAgentGenerator_generate_agents(ContextOf[gen.event], gen.uuid4))

\* the list a call built before it sorted it: lines 146-218 of the rules,
\* lines 196-251 of the fallback, lines 98-114 of the adaptive path
Generated(g) ==
    CASE g.path = "rules" -> Appended(ContextOf[g.event], g.uuid4)
      [] g.path = "fallback" -> FallbackAppended(ContextOf[g.event], g.uuid4)
      [] g.path = "ai" -> AiAppended(g.response.agents, g.uuid4)

\* C13: the list a generate_agents call returns, by the rules, by the
\* adaptive path or by the fallback, is in ascending priority and, within a
\* priority, in descending confidence; it holds the specs the call built,
\* and specs equal in priority and confidence are in the order they were
\* built in.
C13_ReturnedListIsSorted ==
    (gen.at = "returned" /\ ~gen.raised) =>
        LET result == gen.result
            generated == Generated(gen)
            n == Len(result)
            tied(i, j) == /\ result[i].priority = result[j].priority
                          /\ result[i].confidence = result[j].confidence
        IN  /\ Len(generated) = n
            /\ \A i, j \in 1..n :
                  i < j => \/ result[i].priority < result[j].priority
                           \/ /\ result[i].priority = result[j].priority
                              /\ result[i].confidence >= result[j].confidence
            /\ \E at \in [1..n -> 1..n] :
                  /\ \A i, j \in 1..n : i # j => at[i] # at[j]
                  /\ \A i \in 1..n : result[i] = generated[at[i]]
                  /\ \A i, j \in 1..n : (i < j /\ tied(i, j)) => at[i] < at[j]

\* an adaptive call returned its list in another order than it was built in,
\* with two specs of different agent_types equal in priority and confidence
C13_Witness ==
    /\ gen.at = "returned" /\ ~gen.raised
    /\ Len(gen.result) >= 3
    /\ \E i \in 1..Len(gen.result) : gen.result[i] # Generated(gen)[i]
    /\ \E i \in 1..(Len(gen.result) - 1) :
          /\ gen.result[i].priority = gen.result[i + 1].priority
          /\ gen.result[i].confidence = gen.result[i + 1].confidence
          /\ gen.result[i].agent_type # gen.result[i + 1].agent_type
    /\ gen.path = "ai"

\* C14: no two specs returned by one generate_agents call have the same
\* agent_id, by the rules and on the adaptive path, whatever agent_types the
\* answer proposes.
\* Violated: the suffix is eight hexadecimal digits of a random number, and
\* two elements of one answer may name the same agent_type.
C14_AgentIdsAreUnique ==
    (gen.at = "returned" /\ ~gen.raised) =>
        \A i, j \in 1..Len(gen.result) :
            i # j => gen.result[i].agent_id # gen.result[j].agent_id

\* C17: for the event whose error list holds one record with count 5
\* (files 'src/api/handler.py', message 'Fix TypeError in user handler'),
\* the rules return an error-handling spec with confidence 1.0 and priority 1.
\* Violated: error_count is len(errors), 1, and the confidence 1 * 0.2.
C17_ScenarioCErrorHandler ==
    (gen.at = "returned" /\ gen.mode = "rules" /\ gen.event = "error") =>
        \E i \in 1..Len(gen.result) :
            /\ gen.result[i].agent_type = "error_handler"
            /\ gen.result[i].confidence = 10 * Tenth
            /\ gen.result[i].priority = 1

\* C6: a call waiting for its collaborator eventually returns.
\* Violated: nothing in lines 84-137 bounds the call of line 86.
C6_CallIsBounded ==
    (gen.at = "waiting") ~> (gen.at = "returned")

(***************************************************************************)
(* One event taken through the pure functions: _extract_pattern_key,       *)
(* analyze_event and the deterministic rules                               *)
(***************************************************************************)
\* the paths an event's file list is drawn from: one per file type of the
\* analyzer, the first one also matching 'api', 'auth' and 'login'
ProbePaths ==
    { <<"a","p","i","/","A","u","t","h","L","o","g","i","n",".","p","y">>,
      <<"x",".","j","s">>,
      <<"A","p","p",".","t","s","x">>,
      <<"i",".","h","t","m","l">>,
      <<"a",".","c","s","s">>,
      <<"R","E","A","D","M","E",".","m","d">>,
      <<"c",".","y","m","l">>,
      <<"M","a","k","e","f","i","l","e">> }

MaxFiles == 2

FileLists == UNION {[1..n -> ProbePaths] : n \in 0..MaxFiles}

\* the events: a file list, one of the messages '', 'Quick login',
\* 'login token hash' and 'Cache async await', and no error record or one
ProbeEvents ==
    {[files |-> files, message |-> message, errors |-> errors] :
        files \in FileLists,
        message \in { << >>,
                      <<"Q","u","i","c","k"," ","l","o","g","i","n">>,
                      <<"l","o","g","i","n"," ","t","o","k","e","n"," ","h","a","s","h">>,
                      <<"C","a","c","h","e"," ","a","s","y","n","c"," ","a","w","a","i","t">> },
        errors \in { << >>, <<[type |-> "TypeError", count |-> 5]>> }}

\* A store on an empty directory and one event at hand.
InitProbe ==
    /\ pc = At("idle", 0)
    /\ patterns = EmptyPatterns
    /\ success_metrics = DefaultMetrics
    /\ agent_effectiveness = EmptyEffectiveness
    /\ learning_log = EmptyLog
    /\ shape = [f \in Files |-> "ok"]
    /\ disk = [f \in Files |-> Content("absent", f, << >>)]
    /\ clock = 0
    /\ call = NoCall
    /\ committed = [f \in Files |-> [prior |-> disk[f], next |-> disk[f]]]
    /\ reader = NoRead
    /\ gen = GenIdle
    /\ \E event \in ProbeEvents : probe = [NoProbe EXCEPT !.event = event]
    /\ loop = NoLoop
    /\ flow = NoFlow

\* self._extract_pattern_key(event_data)
call_extract_pattern_key ==
    /\ "key" \notin probe.done
    /\ probe' = [probe EXCEPT !.done = @ \cup {"key"}, !.key = _extract_pattern_key(probe.event)]
    /\ UNCHANGED <<storeVars, gen, loop, flow>>

\* ContextAnalyzer().analyze_event(event_data)
call_analyze_event ==
    /\ "context" \notin probe.done
    /\ probe' = [probe EXCEPT !.done = @ \cup {"context"}, !.context = analyze_event(probe.event)]
    /\ UNCHANGED <<storeVars, gen, loop, flow>>

\* DynamicAgentGenerator().generate_agents(context) on the analyzer's context
call_generate_agents(uuid4) ==
    /\ "context" \in probe.done
    /\ "agents" \notin probe.done
    /\ probe' = [probe EXCEPT !.done = @ \cup {"agents"},
                              !.agents = DynamicAgentGenerator_generate_agents(probe.context, uuid4)]
    /\ UNCHANGED <<storeVars, gen, loop, flow>>

NextProbe ==
    \/ call_extract_pattern_key
    \/ call_analyze_event
    \/ \E uuid4 \in UuidStreams : call_generate_agents(uuid4)

SpecProbe == InitProbe /\ [][NextProbe]_vars

(***************************************************************************)
(* Properties of the pure functions                                        *)
(***************************************************************************)
\* the set of paths of a file list
PathSet(files) == {files[i] : i \in 1..Len(files)}

\* the values the sixth component takes
TypeComponents ==
    {"type:other", "type:js", "type:py", "type:web", "type:js_py", "type:js_web", "type:py_web",
     "type:js_py_web"}

\* C12: the pattern key depends on the event alone and not on the order or
\* the repetition of its file paths: every event with the same message, the
\* same errors and the same set of paths has the same key; and a key has
\* exactly six components, sec, mvp, perf, err, doc and type in this order.
C12_KeyIgnoresOrderAndRepetition ==
    "key" \in probe.done =>
        /\ Len(probe.key) = 6
        /\ probe.key[1] \in {"sec:True", "sec:False"}
        /\ probe.key[2] \in {"mvp:True", "mvp:False"}
        /\ probe.key[3] \in {"perf:True", "perf:False"}
        /\ probe.key[4] \in {"err:True", "err:False"}
        /\ probe.key[5] \in {"doc:True", "doc:False"}
        /\ probe.key[6] \in TypeComponents
        /\ \A files \in FileLists :
              PathSet(files) = PathSet(probe.event.files) =>
                  _extract_pattern_key([probe.event EXCEPT !.files = files]) = probe.key

\* a stylesheet before a Python file: two codes appended out of order
C12_Witness ==
    /\ "key" \in probe.done
    /\ Len(probe.event.files) = 2
    /\ FileTypeCode(probe.event.files[1]) = "web"
    /\ FileTypeCode(probe.event.files[2]) = "py"
    /\ probe.key[6] = "type:py_web"

\* the returned list has a spec of this agent_type
Spawns(agents, agent_type) == \E i \in 1..Len(agents) : agents[i].agent_type = agent_type

\* C15: by the rules, a security spec is returned iff security_focus and
\* confidence.security > 0.3, an mvp spec iff mvp_focus and confidence.mvp >
\* 0.2, a performance spec iff performance_focus and confidence.performance
\* > 0.3, a documentation spec iff documentation_focus, an error-handling
\* spec iff error_focus; and no two specs returned have the same agent_type.
C15_FocusRulesFireIndependently ==
    "agents" \in probe.done =>
        LET context == probe.context
            agents == probe.agents
        IN  /\ Spawns(agents, "security_specialist") <=>
                   (context.security_focus /\ context.confidence.security > 3 * Tenth)
            /\ Spawns(agents, "mvp_strategist") <=> (context.mvp_focus /\ context.confidence.mvp > 2 * Tenth)
            /\ Spawns(agents, "performance_expert") <=>
                   (context.performance_focus /\ context.confidence.performance > 3 * Tenth)
            /\ Spawns(agents, "documentation_specialist") <=> context.documentation_focus
            /\ Spawns(agents, "error_handler") <=> context.error_focus
            /\ \A i, j \in 1..Len(agents) : i # j => agents[i].agent_type # agents[j].agent_type

\* three security keywords and nothing else: the security rule fires at
\* 0.30000000000000004 next to the error rule, and the three other focus
\* rules do not fire
C15_Witness ==
    /\ "agents" \in probe.done
    /\ probe.context.confidence.security = 3 * Tenth + 1
    /\ Spawns(probe.agents, "security_specialist")
    /\ Spawns(probe.agents, "error_handler")
    /\ ~Spawns(probe.agents, "mvp_strategist")
    /\ ~Spawns(probe.agents, "performance_expert")
    /\ ~Spawns(probe.agents, "documentation_specialist")

\* C29: security_focus holds iff confidence.security > 0, performance_focus
\* iff confidence.performance > 0 and mvp_focus iff confidence.mvp > 0; a true
\* mvp_focus gives confidence.mvp >= 0.3, and by the rules an mvp spec is
\* returned exactly when mvp_focus holds.
C29_FocusIffPositiveConfidence ==
    /\ "context" \in probe.done =>
           LET context == probe.context
           IN  /\ context.security_focus <=> (context.confidence.security > 0)
               /\ context.performance_focus <=> (context.confidence.performance > 0)
               /\ context.mvp_focus <=> (context.confidence.mvp > 0)
               /\ context.mvp_focus => context.confidence.mvp >= 3 * Tenth
    /\ "agents" \in probe.done =>
           (Spawns(probe.agents, "mvp_strategist") <=> probe.context.mvp_focus)

\* one mvp keyword: mvp_focus with confidence.mvp exactly 0.3 and an mvp spec;
\* security_focus by a keyword of the message only; no performance_focus
C29_Witness ==
    /\ "agents" \in probe.done
    /\ probe.event.files = << >>
    /\ probe.context.mvp_focus /\ probe.context.confidence.mvp = 3 * Tenth
    /\ Spawns(probe.agents, "mvp_strategist")
    /\ probe.context.security_focus /\ probe.context.confidence.security = 1 * Tenth
    /\ ~probe.context.performance_focus /\ probe.context.confidence.performance = 0

\* C19: analyze_event returns security, mvp and performance confidences
\* within [0.0, 1.0] and file_types counts over the eight categories, none
\* negative, that sum to the number of changed files.
C19_ConfidencesAndFileCounts ==
    "context" \in probe.done =>
        LET confidence == probe.context.confidence
            file_types == probe.context.file_types
        IN  /\ confidence.security >= 0 /\ confidence.security <= 10 * Tenth
            /\ confidence.mvp >= 0 /\ confidence.mvp <= 10 * Tenth
            /\ confidence.performance >= 0 /\ confidence.performance <= 10 * Tenth
            /\ DOMAIN file_types = {"python", "javascript", "typescript", "html", "css",
                                     "markdown", "config", "other"}
            /\ \A t \in DOMAIN file_types : file_types[t] >= 0
            /\ file_types["python"] + file_types["javascript"] + file_types["typescript"]
               + file_types["html"] + file_types["css"] + file_types["markdown"]
               + file_types["config"] + file_types["other"] = Len(probe.event.files)

\* two files, one of no known type, and a security confidence that
\* min(confidence, 1.0) cut: two path patterns and four keywords
C19_Witness ==
    /\ "context" \in probe.done
    /\ Len(probe.event.files) = 2
    /\ probe.context.file_types["other"] = 1
    /\ probe.context.file_types["python"] = 1
    /\ probe.context.confidence.security = 10 * Tenth
    /\ Contains(probe.event.message, <<"t","o","k","e","n">>)

\* C16: by the rules, a frontend spec is returned iff the number of
\* JavaScript, TypeScript, HTML and CSS files is above 0, and its confidence
\* is min(that number * 0.2, 1.0).
\* Violated: the confidence counts the JavaScript and TypeScript files only.
C16_FrontendCountAndConfidence ==
    "agents" \in probe.done =>
        LET file_types == probe.context.file_types
            count == file_types["javascript"] + file_types["typescript"]
                     + file_types["html"] + file_types["css"]
        IN  /\ Spawns(probe.agents, "frontend_specialist") <=> count > 0
            /\ \A i \in 1..Len(probe.agents) :
                  probe.agents[i].agent_type = "frontend_specialist" =>
                      probe.agents[i].confidence = Min(Times(count, 2), 10 * Tenth)

\* C18: by the rules, every agent_type in a returned spec's dependencies is
\* the agent_type of another spec of the same list.
\* Violated: the security spec always lists documentation_specialist and the
\* performance spec always lists error_handler; the API spec lists
\* security_specialist and performance_expert from the focus flags alone.
C18_DependenciesAreSpawned ==
    "agents" \in probe.done =>
        \A i \in 1..Len(probe.agents) :
            \A d \in 1..Len(probe.agents[i].dependencies) :
                \E j \in 1..Len(probe.agents) :
                    j # i /\ probe.agents[j].agent_type = probe.agents[i].dependencies[d]

=============================================================================
